---- MODULE Spec2Model ----
\* A model of the extraction core of advanced_kondate_converter.py: the dish
\* tokenizer (_parse_menu_text_advanced and its helpers), the two nutrition
\* extractors and the three-strategy extraction pipeline.
\*
\* A Python str is modelled as a sequence of characters.  Every character is
\* written as an ASCII token: hiragana by its lower-case reading ("go" = ご),
\* katakana by its upper-case reading ("SU" = ス, "CHOON" = ー, "NAKA" = ・),
\* kanji by "k_" and a reading ("k_han" = 飯), whitespace and punctuation by a
\* name ("SP" = ' ', "NL" = newline, "TAB", "ZSP" = full-width space,
\* "LPAR" = '(', "RPAR" = ')', "LBR" = 【, "STAR" = ☆, "COMMA" = ',',
\* "TOUTEN" = 、, "SLASH" = '/', "MINUS" = '-'), ASCII digits by themselves.
\* The comment after a literal gives the string of the source.
EXTENDS Integers, Sequences, FiniteSets, TLC

(***************************************************************************)
(* The lexicon: the literal lists of the source.                           *)
(***************************************************************************)

VARIABLES
  tk_text,         \* the argument of _parse_menu_text_advanced
  tk_pc,          \* where the run of _parse_menu_text_advanced is
  tk_parts,        \* the parts the first loop has not reached yet
  tk_dishes,       \* the candidates of the current loop not handled yet
  menu_items,     \* the local list menu_items
  found_dishes,   \* the local set found_dishes
  structure,      \* the argument of extract_menu_data_from_structure
  pl_pc,          \* where the run of extract_menu_data_from_structure is
  month,          \* its local month
  daily_menus,    \* its local daily_menus
  tried,          \* the strategies it has called so far, with what they returned
  nu_in,          \* the argument of a nutrition extractor
  nu_pc,          \* whether the extractor has run
  nutrition,      \* the NutritionInfo it returned
  output_path,    \* what convert returned
  rendered,       \* the calls of create_checklist_pdf so far
  exit_status,    \* the exit status of the process, once main has ended
  so_items,       \* the argument of _sort_menu_items_by_priority
  so_pc,          \* whether _sort_menu_items_by_priority has run
  so_result       \* the list it returned

tokVars == <<tk_text, tk_pc, tk_parts, tk_dishes, menu_items, found_dishes>>
pipeVars == <<structure, pl_pc, month, daily_menus, tried>>
nutrVars == <<nu_in, nu_pc, nutrition>>
drvVars == <<output_path, rendered, exit_status>>
sortVars == <<so_items, so_pc, so_result>>
vars == <<tokVars, pipeVars, nutrVars, drvVars, sortVars>>

\* the value of the variables of the functions that a specification does not run
Idle == "idle"

\* the value of output_path and exit_status before they are set
Unset == "unset"

\* __init__ 54-57: r'.*X' searched in a name = the name contains X
main_food_patterns ==
  <<
    <<"go", "k_han">>,  \* ご飯
    <<"PA", "N">>,  \* パン
    <<"so", "ba">>,  \* そば
    <<"u", "do", "n">>,  \* うどん
    <<"RA", "CHOON", "ME", "N">>,  \* ラーメン
    <<"k_yaki", "ki", "so", "ba">>,  \* 焼きそば
    <<"k_men">>,  \* 麺
    <<"RA", "I", "SU">>  \* ライス
  >>

\* __init__ 59-61
soup_patterns ==
  <<
    <<"k_shiru">>,  \* 汁
    <<"SU", "CHOON", "PU">>,  \* スープ
    <<"mi", "so", "k_shiru">>,  \* みそ汁
    <<"k_aji", "k_so", "k_shiru">>  \* 味噌汁
  >>

\* __init__ 63-65
drink_patterns ==
  <<
    <<"k_cha">>,  \* 茶
    <<"k_gyu", "k_nyu">>,  \* 牛乳
    <<"JI", "XYU", "CHOON", "SU">>,  \* ジュース
    <<"k_mizu">>  \* 水
  >>

\* __init__ line 69: nutrition_keywords['red']
nutrition_keywords_red ==
  <<
    <<"k_niku">>,  \* 肉
    <<"k_sakana">>,  \* 魚
    <<"k_tamago">>,  \* 卵
    <<"k_mame">>,  \* 豆
    <<"k_nyu">>,  \* 乳
    <<"CHI", "CHOON", "ZU">>,  \* チーズ
    <<"k_aji", "k_so">>,  \* 味噌
    <<"k_tori">>,  \* 鶏
    <<"k_buta">>,  \* 豚
    <<"k_gyu">>,  \* 牛
    <<"k_sake">>,  \* 鮭
    <<"e", "bi">>,  \* えび
    <<"i", "wa", "shi">>,  \* いわし
    <<"sa", "ba">>  \* さば
  >>

\* __init__ line 70: nutrition_keywords['yellow']
nutrition_keywords_yellow ==
  <<
    <<"k_kome">>,  \* 米
    <<"k_mugi">>,  \* 麦
    <<"PA", "N">>,  \* パン
    <<"k_men">>,  \* 麺
    <<"k_imo">>,  \* 芋
    <<"k_abura">>,  \* 油
    <<"k_suna", "k_tou">>,  \* 砂糖
    <<"k_shou", "k_mugi">>,  \* 小麦
    <<"BA", "TA", "CHOON">>  \* バター
  >>

\* __init__ line 71: nutrition_keywords['green']
nutrition_keywords_green ==
  <<
    <<"k_ya", "k_sai">>,  \* 野菜
    <<"KI", "XYA", "BE", "TSU">>,  \* キャベツ
    <<"k_nin", "k_jin">>,  \* 人参
    <<"k_tama", "ne", "gi">>,  \* 玉ねぎ
    <<"k_dai", "k_kon">>,  \* 大根
    <<"k_shou", "k_matsu", "k_sai">>,  \* 小松菜
    <<"k_kob", "k_nuno">>,  \* 昆布
    <<"wa", "ka", "me">>,  \* わかめ
    <<"shi", "i", "ta", "ke">>,  \* しいたけ
    <<"ne", "gi">>  \* ねぎ
  >>

\* _parse_menu_text_advanced 363-366
skip_keywords ==
  <<
    <<"k_mizu">>,  \* 水
    <<"k_shio">>,  \* 塩
    <<"mi", "ri", "n">>,  \* みりん
    <<"ko", "i", "ku", "chi", "shi", "xyo", "u", "yu">>,  \* こいくちしょうゆ
    <<"k_ryou", "k_ri", "k_shu">>,  \* 料理酒
    <<"CHI", "KI", "N", "SU", "CHOON", "PU", "no", "k_moto">>,  \* チキンスープの素
    <<"TO", "MA", "TO", "KE", "CHI", "XYA", "XTSU", "PU">>,  \* トマトケチャップ
    <<"HA", "YA", "SHI", "FU", "RE", "CHOON", "KU">>,  \* ハヤシフレーク
    <<"k_man", "k_nou", "tsu", "yu">>,  \* 万能つゆ
    <<"k_chuu", "k_koi", "SO", "CHOON", "SU">>,  \* 中濃ソース
    <<"k_koku", "k_mono", "k_su">>,  \* 穀物酢
    <<"BE", "CHOON", "KI", "N", "GU", "PA", "U", "DA", "CHOON">>,  \* ベーキングパウダー
    <<"k_iri", "ri", "k_tama", "k_ko", "k_yaki", "ki">>,  \* 入り玉子焼き
    <<"no", "k_aji", "k_so", "k_wa", "e">>,  \* の味噌和え
    <<"k_ya", "k_sai", "no", "k_ita", "me">>,  \* 野菜の炒め
    <<"sa", "n", "ma", "no", "k_shio", "k_yaki", "ki">>  \* さんまの塩焼き
  >>

\* _extract_individual_dishes 401-409: the list of the direct match
direct_dishes ==
  <<
    <<"wa", "ka", "me", "go", "k_han">>,  \* わかめご飯
    <<"TSU", "NA", "k_iri", "ri", "k_tama", "k_ko", "k_yaki", "ki">>,  \* ツナ入り玉子焼き
    <<"KI", "XYA", "BE", "TSU", "no", "k_aji", "k_so", "k_wa", "e">>,  \* キャベツの味噌和え
    <<"sa", "tsu", "ma", "k_imo", "go", "k_han">>,  \* さつま芋ご飯
    <<"k_tori", "k_niku", "no", "ne", "gi", "k_aji", "k_so", "k_yaki", "ki">>,  \* 鶏肉のねぎ味噌焼き
    <<"k_tori", "k_niku", "no", "k_go", "k_moku", "k_ni">>,  \* 鶏肉の五目煮
    <<"hi", "ji", "ki", "k_iri", "ri", "tsu", "ku", "ne">>,  \* ひじき入りつくね
    <<"CHI", "CHOON", "ZU", "k_iri", "ri", "O", "MU", "RE", "TSU">>,  \* チーズ入りオムレツ
    <<"k_shou", "k_matsu", "k_sai", "no", "SO", "TE", "CHOON">>,  \* 小松菜のソテー
    <<"HA", "YA", "SHI", "RA", "I", "SU">>,  \* ハヤシライス
    <<"go", "bo", "u", "SA", "RA", "DA">>,  \* ごぼうサラダ
    <<"k_niku", "k_mame", "k_fu">>,  \* 肉豆腐
    <<"KI", "XYA", "BE", "TSU", "no", "k_wa", "k_fuu", "MA", "YO", "k_wa", "e">>,  \* キャベツの和風マヨ和え
    <<"ta", "ra", "no", "k_ya", "k_sai", "a", "n", "ka", "ke">>,  \* たらの野菜あんかけ
    <<"ha", "ri", "ha", "ri", "k_tsuke", "ke">>,  \* はりはり漬け
    <<"fu", "ro", "fu", "ki", "k_dai", "k_kon">>,  \* ふろふき大根
    <<"k_tori", "k_niku", "no", "MA", "CHOON", "MA", "RE", "CHOON", "DO", "k_yaki", "ki">>,  \* 鶏肉のマーマレード焼き
    <<"k_shiro", "k_sai", "SA", "RA", "DA">>,  \* 白菜サラダ
    <<"k_gu", "da", "ku", "sa", "n", "k_tama", "k_ko", "k_yaki", "ki">>,  \* 具だくさん玉子焼き
    <<"ka", "bo", "chi", "xya", "no", "o", "ka", "ka", "k_wa", "e">>,  \* かぼちゃのおかか和え
    <<"k_wa", "k_fuu", "MI", "CHOON", "TO", "RO", "CHOON", "FU">>,  \* 和風ミートローフ
    <<"k_ya", "k_sai", "no", "k_ita", "me", "k_mono">>,  \* 野菜の炒め物
    <<"k_mame", "k_fu", "SU", "TE", "CHOON", "KI">>,  \* 豆腐ステーキ
    <<"TO", "MA", "TO", "DO", "RE", "XTSU", "SHI", "N", "GU", "k_wa", "e">>,  \* トマトドレッシング和え
    <<"k_oya", "k_ko", "k_don">>,  \* 親子丼
    <<"go", "ma", "SA", "RA", "DA">>,  \* ごまサラダ
    <<"a", "ji", "no", "k_shio", "ko", "u", "ji", "k_yaki", "ki">>,  \* あじの塩こうじ焼き
    <<"k_shiro", "k_sai", "no", "k_su", "k_aji", "k_so", "k_wa", "e">>,  \* 白菜の酢味噌和え
    <<"MI", "CHOON", "TO", "SO", "CHOON", "SU", "SU", "PA", "GE", "TE", "XI">>,  \* ミートソーススパゲティ
    <<"KI", "XYA", "BE", "TSU", "no", "MA", "YO", "SA", "RA", "DA">>,  \* キャベツのマヨサラダ
    <<"MA", "FU", "XI", "N">>,  \* マフィン
    <<"KO", "RO", "XTSU", "KE">>,  \* コロッケ
    <<"k_nin", "k_jin", "DO", "RE", "XTSU", "SHI", "N", "GU", "k_wa", "e">>,  \* 人参ドレッシング和え
    <<"O", "RE", "N", "JI">>,  \* オレンジ
    <<"ri", "n", "go">>,  \* りんご
    <<"GU", "RE", "CHOON", "PU", "FU", "RU", "CHOON", "TSU">>,  \* グレープフルーツ
    <<"k_dai", "k_kon", "no", "yu", "ka", "ri", "k_wa", "e">>,  \* 大根のゆかり和え
    <<"k_kona", "fu", "ki", "k_imo">>  \* 粉ふき芋
  >>

\* _extract_individual_dishes 414-448: every pattern is a literal
dish_patterns ==
  <<
    <<"wa", "ka", "me", "go", "k_han">>,  \* わかめご飯
    <<"TSU", "NA", "k_iri", "ri", "k_tama", "k_ko", "k_yaki", "ki">>,  \* ツナ入り玉子焼き
    <<"KI", "XYA", "BE", "TSU", "no", "k_aji", "k_so", "k_wa", "e">>,  \* キャベツの味噌和え
    <<"sa", "tsu", "ma", "k_imo", "go", "k_han">>,  \* さつま芋ご飯
    <<"k_tori", "k_niku", "no", "ne", "gi", "k_aji", "k_so", "k_yaki", "ki">>,  \* 鶏肉のねぎ味噌焼き
    <<"k_tori", "k_niku", "no", "k_go", "k_moku", "k_ni">>,  \* 鶏肉の五目煮
    <<"hi", "ji", "ki", "k_iri", "ri", "tsu", "ku", "ne">>,  \* ひじき入りつくね
    <<"k_dai", "k_kon", "no", "yu", "ka", "ri", "k_wa", "e">>,  \* 大根のゆかり和え
    <<"CHI", "CHOON", "ZU", "k_iri", "ri", "O", "MU", "RE", "TSU">>,  \* チーズ入りオムレツ
    <<"k_shou", "k_matsu", "k_sai", "no", "SO", "TE", "CHOON">>,  \* 小松菜のソテー
    <<"HA", "YA", "SHI", "RA", "I", "SU">>,  \* ハヤシライス
    <<"go", "bo", "u", "SA", "RA", "DA">>,  \* ごぼうサラダ
    <<"k_niku", "k_mame", "k_fu">>,  \* 肉豆腐
    <<"KI", "XYA", "BE", "TSU", "no", "k_wa", "k_fuu", "MA", "YO", "k_wa", "e">>,  \* キャベツの和風マヨ和え
    <<"ta", "ra", "no", "k_ya", "k_sai", "a", "n", "ka", "ke">>,  \* たらの野菜あんかけ
    <<"ha", "ri", "ha", "ri", "k_tsuke", "ke">>,  \* はりはり漬け
    <<"fu", "ro", "fu", "ki", "k_dai", "k_kon">>,  \* ふろふき大根
    <<"k_tori", "k_niku", "no", "MA", "CHOON", "MA", "RE", "CHOON", "DO", "k_yaki", "ki">>,  \* 鶏肉のマーマレード焼き
    <<"k_shiro", "k_sai", "SA", "RA", "DA">>,  \* 白菜サラダ
    <<"k_gu", "da", "ku", "sa", "n", "k_tama", "k_ko", "k_yaki", "ki">>,  \* 具だくさん玉子焼き
    <<"ka", "bo", "chi", "xya", "no", "o", "ka", "ka", "k_wa", "e">>,  \* かぼちゃのおかか和え
    <<"k_wa", "k_fuu", "MI", "CHOON", "TO", "RO", "CHOON", "FU">>,  \* 和風ミートローフ
    <<"k_ya", "k_sai", "no", "k_ita", "me", "k_mono">>,  \* 野菜の炒め物
    <<"k_mame", "k_fu", "SU", "TE", "CHOON", "KI">>,  \* 豆腐ステーキ
    <<"TO", "MA", "TO", "DO", "RE", "XTSU", "SHI", "N", "GU", "k_wa", "e">>,  \* トマトドレッシング和え
    <<"k_oya", "k_ko", "k_don">>,  \* 親子丼
    <<"go", "ma", "SA", "RA", "DA">>,  \* ごまサラダ
    <<"a", "ji", "no", "k_shio", "ko", "u", "ji", "k_yaki", "ki">>,  \* あじの塩こうじ焼き
    <<"k_shiro", "k_sai", "no", "k_su", "k_aji", "k_so", "k_wa", "e">>,  \* 白菜の酢味噌和え
    <<"MI", "CHOON", "TO", "SO", "CHOON", "SU", "SU", "PA", "GE", "TE", "XI">>,  \* ミートソーススパゲティ
    <<"KI", "XYA", "BE", "TSU", "no", "MA", "YO", "SA", "RA", "DA">>,  \* キャベツのマヨサラダ
    <<"k_nin", "k_jin", "DO", "RE", "XTSU", "SHI", "N", "GU", "k_wa", "e">>,  \* 人参ドレッシング和え
    <<"e", "bi", "to", "k_ya", "k_sai", "no", "k_tama", "k_ko", "k_yaki", "ki">>,  \* えびと野菜の玉子焼き
    <<"hi", "ji", "ki", "to", "ne", "gi", "no", "k_tama", "k_ko", "k_yaki", "ki">>,  \* ひじきとねぎの玉子焼き
    <<"k_ya", "k_sai", "to", "k_ita", "ri", "k_tama", "k_ko", "no", "k_wa", "e", "k_mono">>,  \* 野菜と炒り玉子の和え物
    <<"k_buta", "k_niku", "to", "k_ya", "k_sai", "no", "k_ita", "me", "k_mono">>,  \* 豚肉と野菜の炒め物
    <<"k_tori", "k_niku", "to", "k_kon", "k_sai", "no", "k_ni", "k_mono">>,  \* 鶏肉と根菜の煮物
    <<"hi", "ji", "ki", "to", "sa", "tsu", "ma", "k_age", "ge", "no", "k_ni", "k_mono">>,  \* ひじきとさつま揚げの煮物
    <<"ki", "xyu", "u", "ri", "to", "mo", "ya", "shi", "no", "yu", "ka", "ri", "k_wa", "e">>,  \* きゅうりともやしのゆかり和え
    <<"PO", "TE", "TO", "no", "k_wa", "k_fuu", "BA", "TA", "CHOON", "k_wa", "e">>,  \* ポテトの和風バター和え
    <<"fu", "ri", "ka", "ke", "go", "k_han">>,  \* ふりかけご飯
    <<"ki", "no", "ko", "go", "k_han">>,  \* きのこご飯
    <<"k_mugi", "go", "k_han">>,  \* 麦ご飯
    <<"k_yuu", "k_yaki", "ke", "go", "k_han">>,  \* 夕焼けご飯
    <<"k_ao", "no", "ri", "go", "k_han">>,  \* 青のりご飯
    <<"k_gen", "k_kome", "k_iri", "ri", "go", "k_han">>,  \* 玄米入りご飯
    <<"a", "n", "ka", "ke", "k_yaki", "ki", "so", "ba">>,  \* あんかけ焼きそば
    <<"RO", "CHOON", "RU", "PA", "N">>,  \* ロールパン
    <<"k_aji", "k_so", "k_shiru">>,  \* 味噌汁
    <<"KO", "CHOON", "N", "SU", "CHOON", "PU">>,  \* コーンスープ
    <<"wa", "ka", "me", "SU", "CHOON", "PU">>,  \* わかめスープ
    <<"su", "ma", "shi", "k_shiru">>,  \* すまし汁
    <<"KO", "N", "SO", "ME", "SU", "CHOON", "PU">>,  \* コンソメスープ
    <<"MA", "KA", "RO", "NI", "SU", "CHOON", "PU">>,  \* マカロニスープ
    <<"k_chuu", "k_hana", "SU", "CHOON", "PU">>,  \* 中華スープ
    <<"WA", "N", "TA", "N", "SU", "CHOON", "PU">>,  \* ワンタンスープ
    <<"k_kon", "k_sai", "k_shiru">>,  \* 根菜汁
    <<"sa", "wa", "ra", "no", "k_teri", "ri", "k_yaki", "ki">>,  \* さわらの照り焼き
    <<"na", "me", "ta", "ke", "k_wa", "e">>,  \* なめたけ和え
    <<"k_nat", "k_mame", "k_wa", "e">>,  \* 納豆和え
    <<"k_kona", "fu", "ki", "k_imo">>,  \* 粉ふき芋
    <<"sa", "ba", "no", "k_shio", "k_yaki", "ki">>,  \* さばの塩焼き
    <<"KO", "RO", "XTSU", "KE">>,  \* コロッケ
    <<"MA", "FU", "XI", "N">>,  \* マフィン
    <<"k_mugi", "k_cha">>,  \* 麦茶
    <<"k_gyu", "k_nyu">>,  \* 牛乳
    <<"CHI", "CHOON", "ZU">>,  \* チーズ
    <<"O", "RE", "N", "JI">>,  \* オレンジ
    <<"ri", "n", "go">>,  \* りんご
    <<"GU", "RE", "CHOON", "PU", "FU", "RU", "CHOON", "TSU">>  \* グレープフルーツ
  >>

\* _extract_individual_dishes 451
basic_items ==
  <<
    <<"go", "k_han">>,  \* ご飯
    <<"k_aji", "k_so", "k_shiru">>,  \* 味噌汁
    <<"k_mugi", "k_cha">>,  \* 麦茶
    <<"k_gyu", "k_nyu">>,  \* 牛乳
    <<"CHI", "CHOON", "ZU">>  \* チーズ
  >>

\* _is_valid_dish_name 487
valid_short_names ==
  <<
    <<"go", "k_han">>,  \* ご飯
    <<"k_gyu", "k_nyu">>,  \* 牛乳
    <<"k_mugi", "k_cha">>,  \* 麦茶
    <<"CHI", "CHOON", "ZU">>,  \* チーズ
    <<"ri", "n", "go">>,  \* りんご
    <<"k_nashi">>  \* 梨
  >>

\* _should_include_dish 511-516
problematic_patterns ==
  <<
    <<"sa", "n", "ma", "no", "k_shio", "k_yaki", "ki">>,  \* さんまの塩焼き
    <<"no", "k_aji", "k_so", "k_wa", "e">>,  \* の味噌和え
    <<"k_ya", "k_sai", "no", "k_ita", "me">>,  \* 野菜の炒め
    <<"k_iri", "ri", "k_tama", "k_ko", "k_yaki", "ki">>  \* 入り玉子焼き
  >>

\* _extract_dishes_by_pattern 547
invalid_keywords ==
  <<
    <<"k_ryou", "k_ri">>,  \* 料理
    <<"k_chou", "k_aji">>,  \* 調味
    <<"k_tsuka", "k_you">>,  \* 使用
    <<"k_ei", "k_yashina">>,  \* 栄養
    <<"k_shoku", "k_hin">>,  \* 食品
    <<"k_shoku", "k_zai">>,  \* 食材
    <<"k_sei", "k_bun">>  \* 成分
  >>

\* _sort_menu_items_by_priority 875
main_dish_keywords ==
  <<
    <<"go", "k_han">>,  \* ご飯
    <<"PA", "N">>,  \* パン
    <<"k_mugi", "go", "k_han">>,  \* 麦ご飯
    <<"fu", "ri", "ka", "ke", "go", "k_han">>,  \* ふりかけご飯
    <<"ki", "no", "ko", "go", "k_han">>,  \* きのこご飯
    <<"k_yuu", "k_yaki", "ke", "go", "k_han">>,  \* 夕焼けご飯
    <<"RO", "CHOON", "RU", "PA", "N">>  \* ロールパン
  >>

\* _extract_dishes_by_pattern line 530: the alternatives after [あ-ん一-龯ー・]+
suffixes_1 ==
  <<
    <<"k_wa", "e">>,  \* 和え
    <<"k_ita", "me">>,  \* 炒め
    <<"k_yaki", "ki">>,  \* 焼き
    <<"k_ni">>,  \* 煮
    <<"k_age", "ge">>,  \* 揚げ
    <<"k_tsuke", "ke">>,  \* 漬け
    <<"k_yude", "de">>,  \* 茹で
    <<"k_mushi", "shi">>  \* 蒸し
  >>

\* _extract_dishes_by_pattern line 532: the alternatives after [あ-ん一-龯ー・]+
suffixes_2 ==
  <<
    <<"go", "k_han">>,  \* ご飯
    <<"RA", "I", "SU">>  \* ライス
  >>

\* _extract_dishes_by_pattern line 534: the alternatives after [あ-ん一-龯ー・]+
suffixes_3 ==
  <<
    <<"k_shiru">>,  \* 汁
    <<"SU", "CHOON", "PU">>  \* スープ
  >>

\* _extract_dishes_by_pattern line 536: the alternatives after [あ-ん一-龯ー・]+
suffixes_4 ==
  <<
    <<"SA", "RA", "DA">>  \* サラダ
  >>

\* _extract_dishes_by_pattern line 538: the alternatives of the last pattern
special_dishes ==
  <<
    <<"k_oya", "k_ko", "k_don">>,  \* 親子丼
    <<"HA", "YA", "SHI", "RA", "I", "SU">>,  \* ハヤシライス
    <<"k_niku", "k_mame", "k_fu">>,  \* 肉豆腐
    <<"k_mame", "k_fu", "SU", "TE", "CHOON", "KI">>  \* 豆腐ステーキ
  >>

\* the characters of the range あ-ん
Hiragana ==
  {
    "a", "i", "u", "e", "o", "ka", "ga", "ki", "gi", "ku",
    "gu", "ke", "ge", "ko", "go", "sa", "za", "shi", "ji", "su",
    "zu", "se", "ze", "so", "zo", "ta", "da", "chi", "dji", "xtsu",
    "tsu", "dzu", "te", "de", "to", "do", "na", "ni", "nu", "ne",
    "no", "ha", "ba", "pa", "hi", "bi", "pi", "fu", "bu", "pu",
    "he", "be", "pe", "ho", "bo", "po", "ma", "mi", "mu", "me",
    "mo", "xya", "ya", "xyu", "yu", "xyo", "yo", "ra", "ri", "ru",
    "re", "ro", "wa", "wo", "n"
  }

\* the characters of the range 一-龯 that the model's alphabet has
Kanji ==
  {
    "k_man", "k_chuu", "k_don", "k_nyu", "k_go", "k_nin", "k_tsuki", "k_yasumi", "k_tsuka", "k_iri",
    "k_gu", "k_bun", "k_ka", "k_tamago", "k_jin", "k_mei", "k_aji", "k_wa", "k_hin", "k_so",
    "k_tsuchi", "k_shio", "k_yuu", "k_dai", "k_ko", "k_shou", "k_nuno", "k_sei", "k_age", "k_ryou",
    "k_nichi", "k_kob", "k_youbi", "k_getsu", "k_ki", "k_zai", "k_matsu", "k_kudamono", "k_ei", "k_kon",
    "k_nashi", "k_mizu", "k_shiru", "k_abura", "k_tsuke", "k_koi", "k_hi", "k_ita", "k_tan", "k_yaki",
    "k_teri", "k_ni", "k_gyu", "k_mono", "k_kon2", "k_gen", "k_tama", "k_ri", "k_you", "k_shiro",
    "k_moku", "k_suna", "k_shuku", "k_koku", "k_date", "k_kome", "k_kona", "k_tou", "k_nat", "k_moto",
    "k_niku", "k_nou", "k_fu", "k_imo", "k_cha", "k_yude", "k_sai", "k_hana", "k_mushi", "k_hyou",
    "k_oya", "k_chou", "k_mame", "k_buta", "k_shitsu", "k_shu", "k_su", "k_ya", "k_kin", "k_ao",
    "k_rui", "k_fuu", "k_shoku", "k_han", "k_yashina", "k_sakana", "k_sake", "k_tori", "k_mugi", "k_men"
  }

(***************************************************************************)
(* Python str and list operations.                                         *)
(***************************************************************************)

\* x in L, for a list L
InList(x, L) == \E i \in DOMAIN L : L[i] = x

\* p in s, for strings p and s; also re.search of a literal pattern p in s
IsSub(p, s) ==
  \/ p = <<>>
  \/ \E i \in 1..(Len(s) - Len(p) + 1) :
       /\ s[i] = p[1]
       /\ \A k \in 2..Len(p) : s[i + k - 1] = p[k]

\* s has p at position i (counted from 1)
StartsAt(s, i, p) ==
  /\ i + Len(p) - 1 <= Len(s)
  /\ \A k \in 1..Len(p) : s[i + k - 1] = p[k]

\* the characters \s matches, among the characters of the model
Whitespace == {"SP", "NL", "TAB", "ZSP"}

RECURSIVE LStrip(_)
LStrip(s) ==
  IF s # <<>> /\ Head(s) \in Whitespace THEN LStrip(Tail(s)) ELSE s

RECURSIVE RStrip(_)
RStrip(s) ==
  IF s # <<>> /\ s[Len(s)] \in Whitespace
  THEN RStrip(SubSeq(s, 1, Len(s) - 1))
  ELSE s

\* str.strip()
Strip(s) == RStrip(LStrip(s))

\* re.sub(r'\s+', ' ', s): every maximal run of whitespace becomes one space
RECURSIVE CollapseWhitespace(_)
CollapseWhitespace(s) ==
  IF s = <<>> THEN <<>>
  ELSE IF Head(s) \in Whitespace
       THEN <<"SP">> \o CollapseWhitespace(LStrip(s))
       ELSE <<Head(s)>> \o CollapseWhitespace(Tail(s))

\* s.split(sep) for a one-character separator: the list of the segments
\* between the separators, empty segments included
RECURSIVE SplitFrom(_, _, _)
SplitFrom(s, sep, cur) ==
  IF s = <<>> THEN <<cur>>
  ELSE IF Head(s) = sep
       THEN <<cur>> \o SplitFrom(Tail(s), sep, <<>>)
       ELSE SplitFrom(Tail(s), sep, Append(cur, Head(s)))

Split(s, sep) == SplitFrom(s, sep, <<>>)

\* the concatenation of the strings of a list
RECURSIVE Concat(_)
Concat(ss) == IF ss = <<>> THEN <<>> ELSE Head(ss) \o Concat(Tail(ss))

\* sep.join(ss)
RECURSIVE Join(_, _)
Join(sep, ss) ==
  IF ss = <<>> THEN <<>>
  ELSE IF Len(ss) = 1 THEN Head(ss)
       ELSE Head(ss) \o sep \o Join(sep, Tail(ss))

\* the set of the elements of a list
Range(L) == {L[i] : i \in DOMAIN L}

(***************************************************************************)
(* The dish tokenizer.                                                     *)
(***************************************************************************)

\* the category strings 主食, 汁物, 飲み物, おかず
Staple == "shushoku"
Soup == "shirumono"
Drink == "nomimono"
SideDish == "okazu"

\* the categoriser with re.match on the bare word in place of re.search on r'.*word'
_categorize_dish_advanced_Anchored(dish_name) ==
  IF \E i \in DOMAIN main_food_patterns : StartsAt(dish_name, 1, main_food_patterns[i])
  THEN Staple
  ELSE IF \E i \in DOMAIN soup_patterns : StartsAt(dish_name, 1, soup_patterns[i])
       THEN Soup
       ELSE IF \E i \in DOMAIN drink_patterns : StartsAt(dish_name, 1, drink_patterns[i])
            THEN Drink
            ELSE SideDish

\* _categorize_dish_advanced: the first group with a matching pattern
_categorize_dish_advanced(dish_name) ==
  IF \E i \in DOMAIN main_food_patterns : IsSub(main_food_patterns[i], dish_name)
  THEN Staple
  ELSE IF \E i \in DOMAIN soup_patterns : IsSub(soup_patterns[i], dish_name)
       THEN Soup
       ELSE IF \E i \in DOMAIN drink_patterns : IsSub(drink_patterns[i], dish_name)
            THEN Drink
            ELSE SideDish

MenuItem(name, category) == [name |-> name, category |-> category]

\* the second loop of _extract_individual_dishes: a basic item found in the
\* line is appended unless it is already in dishes
RECURSIVE AddBasicItems(_, _, _)
AddBasicItems(dishes, line, i) ==
  IF i > Len(basic_items) THEN dishes
  ELSE IF IsSub(basic_items[i], line) /\ ~InList(basic_items[i], dishes)
       THEN AddBasicItems(Append(dishes, basic_items[i]), line, i + 1)
       ELSE AddBasicItems(dishes, line, i + 1)

\* _extract_individual_dishes
_extract_individual_dishes(line) ==
  IF InList(line, direct_dishes) THEN <<line>>
  ELSE AddBasicItems(SelectSeq(dish_patterns, LAMBDA p : IsSub(p, line)), line, 1)

\* _is_valid_dish_name
_is_valid_dish_name(dish_name) ==
  LET n == Len(dish_name)
      invalid ==
        \/ n >= 2 /\ dish_name[1] = "k_iri" /\ dish_name[2] = "ri"   \* ^入り
        \/ n >= 2 /\ dish_name[1] = "no" /\ dish_name[2] \in Hiragana  \* ^の[あ-ん]+
        \/ n \in {1, 2} /\ \A i \in 1..n : dish_name[i] \in Hiragana    \* ^[あ-ん]{1,2}$
        \/ \E i \in 1..n : dish_name[i] \in {"LBR", "STAR"}             \* [【☆]
        \/ dish_name = <<"k_ita", "me">>                                 \* ^炒め$
        \/ n >= 1 /\ dish_name[1] = "RPAR"                               \* ^\)
  IN  /\ ~invalid
      /\ ~(n > 15)
      /\ ~(n <= 2 /\ ~InList(dish_name, valid_short_names))

\* _should_include_dish.  The function iterates over the set existing_dishes,
\* whose order Python does not fix, and stops at the first element that
\* contains dish (return False) or is contained in dish (discard, after which
\* the iterator raises RuntimeError: Set changed size during iteration).  The
\* result is the set of the outcomes over all orders: ret is "True", "False"
\* or "RuntimeError", existing is the set afterwards.
Gohan == <<"go", "k_han">>

\* _should_include_dish without the test of problematic_patterns
_should_include_dish_NoPatterns(dish, existing_dishes) ==
  LET specific == {e \in existing_dishes : IsSub(Gohan, e) /\ e # Gohan}
      longer == {e \in existing_dishes : dish # e /\ IsSub(dish, e)}
      shorter == {e \in existing_dishes : e # dish /\ IsSub(e, dish)}
  IN  IF dish = Gohan /\ specific # {}
      THEN {[ret |-> "False", existing |-> existing_dishes]}
      ELSE IF longer \cup shorter # {}
           THEN {[ret |-> "False", existing |-> existing_dishes] : e \in longer}
                \cup {[ret |-> "RuntimeError", existing |-> existing_dishes \ {e}] : e \in shorter}
           ELSE {[ret |-> "True",
                  existing |-> existing_dishes]}

_should_include_dish(dish, existing_dishes) ==
  LET specific == {e \in existing_dishes : IsSub(Gohan, e) /\ e # Gohan}
      longer == {e \in existing_dishes : dish # e /\ IsSub(dish, e)}
      shorter == {e \in existing_dishes : e # dish /\ IsSub(e, dish)}
  IN  IF dish = Gohan /\ specific # {}
      THEN {[ret |-> "False", existing |-> existing_dishes]}
      ELSE IF longer \cup shorter # {}
           THEN {[ret |-> "False", existing |-> existing_dishes] : e \in longer}
                \cup {[ret |-> "RuntimeError", existing |-> existing_dishes \ {e}] : e \in shorter}
           ELSE {[ret |-> IF InList(dish, problematic_patterns) THEN "False" ELSE "True",
                  existing |-> existing_dishes]}

\* [あ-ん一-龯ー・]
InClass(c) == c \in Hiragana \cup Kanji \cup {"CHOON", "NAKA"}

\* the last position of the maximal run of class characters that starts at i
RECURSIVE RunEnd(_, _)
RunEnd(text, i) ==
  IF i + 1 <= Len(text) /\ InClass(text[i + 1]) THEN RunEnd(text, i + 1) ELSE i

\* the length of the first alternative that text has at position i, else 0
RECURSIVE AltLenAt(_, _, _, _)
AltLenAt(text, i, alts, a) ==
  IF a > Len(alts) THEN 0
  ELSE IF StartsAt(text, i, alts[a]) THEN Len(alts[a])
       ELSE AltLenAt(text, i, alts, a + 1)

\* [class]+(?:alts) at position i: the run is greedy and gives back one
\* character at a time until an alternative follows; the end of the match, else 0
RECURSIVE Backtrack(_, _, _, _)
Backtrack(text, i, k, alts) ==
  IF k < i THEN 0
  ELSE LET l == AltLenAt(text, k + 1, alts, 1)
       IN  IF l > 0 THEN k + l ELSE Backtrack(text, i, k - 1, alts)

SuffixMatchEnd(text, i, alts) ==
  IF InClass(text[i]) THEN Backtrack(text, i, RunEnd(text, i), alts) ELSE 0

\* a pattern that is only alternatives of literals
LiteralMatchEnd(text, i, alts) ==
  LET l == AltLenAt(text, i, alts, 1) IN IF l > 0 THEN i + l - 1 ELSE 0

\* re.findall: the matches from left to right, the search resuming after a match
RECURSIVE FindAllFrom(_, _, _, _)
FindAllFrom(text, i, alts, withClass) ==
  IF i > Len(text) THEN <<>>
  ELSE LET e == IF withClass THEN SuffixMatchEnd(text, i, alts)
                 ELSE LiteralMatchEnd(text, i, alts)
       IN  IF e > 0
           THEN <<SubSeq(text, i, e)>> \o FindAllFrom(text, e + 1, alts, withClass)
           ELSE FindAllFrom(text, i + 1, alts, withClass)

\* the filter of _extract_dishes_by_pattern on one match
KeepMatch(match) ==
  /\ Len(match) > 2
  /\ Len(match) < 20
  /\ ~\E k \in DOMAIN invalid_keywords : IsSub(invalid_keywords[k], match)

\* _extract_dishes_by_pattern
_extract_dishes_by_pattern(text) ==
  SelectSeq(FindAllFrom(text, 1, suffixes_1, TRUE)
              \o FindAllFrom(text, 1, suffixes_2, TRUE)
              \o FindAllFrom(text, 1, suffixes_3, TRUE)
              \o FindAllFrom(text, 1, suffixes_4, TRUE)
              \o FindAllFrom(text, 1, special_dishes, FALSE),
            KeepMatch)

\* the clean-up of _parse_menu_text_advanced
CleanText(text) == Strip(CollapseWhitespace(text))

\* parts.split(sep) over every part, for one separator
RECURSIVE SplitParts(_, _)
SplitParts(parts, sep) ==
  IF parts = <<>> THEN <<>>
  ELSE Split(Head(parts), sep) \o SplitParts(Tail(parts), sep)

\* the parts of the cleaned text: split on newline, full-width space, space, tab
PartsOf(cleaned) ==
  SplitParts(SplitParts(SplitParts(SplitParts(<<cleaned>>, "NL"), "ZSP"), "SP"), "TAB")

\* the dishes of one part in the first loop, none if the part is skipped
DishesOfPart(part) ==
  LET p == Strip(part)
  IN  IF Len(p) < 2 \/ InList(p, skip_keywords) THEN <<>>
      ELSE _extract_individual_dishes(p)

\* The state of one run of _parse_menu_text_advanced: the list menu_items, the
\* set found_dishes and whether an exception has ended the run.
TokStart == [menu_items |-> <<>>, found_dishes |-> {}, raised |-> FALSE]

\* TokStep without the test "not in found_dishes"
TokStep_NoFoundTest(st, dish, firstLoop) ==
  LET clean_dish == IF firstLoop THEN Strip(dish) ELSE dish
      considered ==
        /\ firstLoop => Len(clean_dish) > 1
        /\ _is_valid_dish_name(clean_dish)
  IN  IF ~considered THEN {st}
      ELSE { IF o.ret = "RuntimeError"
             THEN [menu_items |-> st.menu_items, found_dishes |-> o.existing, raised |-> TRUE]
             ELSE IF o.ret = "True"
                  THEN [menu_items |-> Append(st.menu_items,
                                              MenuItem(clean_dish, _categorize_dish_advanced(clean_dish))),
                        found_dishes |-> o.existing \cup {clean_dish},
                        raised |-> FALSE]
                  ELSE [menu_items |-> st.menu_items, found_dishes |-> o.existing, raised |-> FALSE]
             : o \in _should_include_dish(clean_dish, st.found_dishes) }

\* the body of either loop for one candidate; firstLoop tells which loop
TokStep(st, dish, firstLoop) ==
  LET clean_dish == IF firstLoop THEN Strip(dish) ELSE dish
      considered ==
        /\ firstLoop => Len(clean_dish) > 1
        /\ clean_dish \notin st.found_dishes
        /\ _is_valid_dish_name(clean_dish)
  IN  IF ~considered THEN {st}
      ELSE { IF o.ret = "RuntimeError"
             THEN [menu_items |-> st.menu_items, found_dishes |-> o.existing, raised |-> TRUE]
             ELSE IF o.ret = "True"
                  THEN [menu_items |-> Append(st.menu_items,
                                              MenuItem(clean_dish, _categorize_dish_advanced(clean_dish))),
                        found_dishes |-> o.existing \cup {clean_dish},
                        raised |-> FALSE]
                  ELSE [menu_items |-> st.menu_items, found_dishes |-> o.existing, raised |-> FALSE]
             : o \in _should_include_dish(clean_dish, st.found_dishes) }

\* a loop over a list of candidates; an exception ends it
RECURSIVE TokLoop(_, _, _)
TokLoop(sts, dishes, firstLoop) ==
  IF dishes = <<>> THEN sts
  ELSE TokLoop(UNION {IF st.raised THEN {st} ELSE TokStep(st, Head(dishes), firstLoop) : st \in sts},
               Tail(dishes), firstLoop)

\* the candidates of the first loop, part after part
RECURSIVE FirstLoopDishes(_)
FirstLoopDishes(parts) ==
  IF parts = <<>> THEN <<>>
  ELSE DishesOfPart(Head(parts)) \o FirstLoopDishes(Tail(parts))

\* _parse_menu_text_advanced: the set of its possible final states; a state
\* with raised = TRUE is a run that ended in RuntimeError, any other one
\* returns menu_items
_parse_menu_text_advanced(text) ==
  LET cleaned == CleanText(text)
      first == TokLoop({TokStart}, FirstLoopDishes(PartsOf(cleaned)), TRUE)
  IN  TokLoop(first, _extract_dishes_by_pattern(cleaned), FALSE)

(***************************************************************************)
(* The nutrition extractors.                                               *)
(***************************************************************************)

\* the dataclass NutritionInfo
NutritionInfo(red, yellow, green) == [red |-> red, yellow |-> yellow, green |-> green]

\* items[:n]
Take(items, n) == SubSeq(items, 1, IF Len(items) < n THEN Len(items) ELSE n)

\* one loop of _extract_nutrition_advanced: a keyword found in the text is
\* appended unless it is already in items
RECURSIVE AddKeywords(_, _, _, _)
AddKeywords(items, keywords, s, i) ==
  IF i > Len(keywords) THEN items
  ELSE IF IsSub(keywords[i], s) /\ ~InList(keywords[i], items)
       THEN AddKeywords(Append(items, keywords[i]), keywords, s, i + 1)
       ELSE AddKeywords(items, keywords, s, i + 1)

\* the default labels of _extract_nutrition_advanced
DefaultRed == <<"TA", "N", "PA", "KU", "k_shitsu", "k_shoku", "k_hin">>        \* タンパク質食品
DefaultYellow == <<"k_tan", "k_mizu", "k_ka", "k_mono">>     \* 炭水化物
DefaultGreen == <<"k_ya", "k_sai", "k_rui">>      \* 野菜類

\* the slices of the return statement of _extract_nutrition_advanced
RedCap == 4
YellowCap == 2
GreenCap == 6

\* _extract_nutrition_advanced without the slices
_extract_nutrition_advanced_NoCap(s) ==
  LET red_items == AddKeywords(<<>>, nutrition_keywords_red, s, 1)
      yellow_items == AddKeywords(<<>>, nutrition_keywords_yellow, s, 1)
      green_items == AddKeywords(<<>>, nutrition_keywords_green, s, 1)
  IN  NutritionInfo(IF red_items = <<>> THEN <<DefaultRed>> ELSE red_items,
                    IF yellow_items = <<>> THEN <<DefaultYellow>> ELSE yellow_items,
                    IF green_items = <<>> THEN <<DefaultGreen>> ELSE green_items)

\* _extract_nutrition_advanced
_extract_nutrition_advanced(s) ==
  LET red_items == AddKeywords(<<>>, nutrition_keywords_red, s, 1)
      yellow_items == AddKeywords(<<>>, nutrition_keywords_yellow, s, 1)
      green_items == AddKeywords(<<>>, nutrition_keywords_green, s, 1)
  IN  NutritionInfo(Take(IF red_items = <<>> THEN <<DefaultRed>> ELSE red_items, RedCap),
                    Take(IF yellow_items = <<>> THEN <<DefaultYellow>> ELSE yellow_items, YellowCap),
                    Take(IF green_items = <<>> THEN <<DefaultGreen>> ELSE green_items, GreenCap))

\* a table cell that is None; any other cell is a string
NoneCell == <<"None">>

\* the truth value of a cell: None and '' are false
Truthy(cell) == cell # NoneCell /\ cell # <<>>

\* the characters of the class [,、\s\n　] of _parse_nutrition_text
NutritionSeparators == Whitespace \cup {"COMMA", "TOUTEN"}

\* re.split(r'[,、\s\n　]+', s): the segments between the maximal runs of
\* separators, the empty ones at the ends included
RECURSIVE DropSeparators(_)
DropSeparators(s) ==
  IF s # <<>> /\ Head(s) \in NutritionSeparators THEN DropSeparators(Tail(s)) ELSE s

RECURSIVE ReSplitFrom(_, _)
ReSplitFrom(s, cur) ==
  IF s = <<>> THEN <<cur>>
  ELSE IF Head(s) \in NutritionSeparators
       THEN <<cur>> \o ReSplitFrom(DropSeparators(s), <<>>)
       ELSE ReSplitFrom(Tail(s), Append(cur, Head(s)))

\* the loop of _parse_nutrition_text: the stripped items that are not empty
RECURSIVE ValidItems(_)
ValidItems(items) ==
  IF items = <<>> THEN <<>>
  ELSE LET item == Strip(Head(items))
       IN  IF item # <<>> /\ Len(item) >= 1
           THEN <<item>> \o ValidItems(Tail(items))
           ELSE ValidItems(Tail(items))

\* _parse_nutrition_text
_parse_nutrition_text(s) ==
  IF s = <<>> THEN <<>> ELSE ValidItems(ReSplitFrom(Strip(s), <<>>))

\* the markers of the three columns
Aka == <<"a", "ka">>          \* あか
Kiiro == <<"ki", "i", "ro">>   \* きいろ
Midori == <<"mi", "do", "ri">>  \* みどり

\* the loop over the headers with its if / elif / elif: a header counts for
\* the first marker it contains, and the last such header gives the column;
\* 0 stands for None, the columns are counted from 1
LastIndex(S) == IF S = {} THEN 0 ELSE CHOOSE i \in S : \A j \in S : j <= i

RedCol(headers) == LastIndex({i \in DOMAIN headers : IsSub(Aka, headers[i])})

YellowCol(headers) ==
  LastIndex({i \in DOMAIN headers : ~IsSub(Aka, headers[i]) /\ IsSub(Kiiro, headers[i])})

GreenCol(headers) ==
  LastIndex({i \in DOMAIN headers :
               ~IsSub(Aka, headers[i]) /\ ~IsSub(Kiiro, headers[i]) /\ IsSub(Midori, headers[i])})

\* the items of the cell of a column, none if there is no such column, the
\* row is too short or the cell is empty
ColumnItems(row, col) ==
  IF col # 0 /\ col <= Len(row) /\ Truthy(row[col])
  THEN _parse_nutrition_text(Strip(row[col]))
  ELSE <<>>

\* the default labels of _extract_nutrition_from_table_row
RowDefaultRed == <<"k_niku", "NAKA", "k_sakana", "NAKA", "k_tamago">>        \* 肉・魚・卵
RowDefaultYellow == <<"go", "k_han", "NAKA", "PA", "N">>     \* ご飯・パン
RowDefaultGreen == <<"k_ya", "k_sai", "NAKA", "k_kudamono", "k_mono">>      \* 野菜・果物

\* _extract_nutrition_from_table_row with a default label for every empty group
_extract_nutrition_from_table_row_PerGroup(row, headers) ==
  LET red_items == ColumnItems(row, RedCol(headers))
      yellow_items == ColumnItems(row, YellowCol(headers))
      green_items == ColumnItems(row, GreenCol(headers))
  IN  NutritionInfo(IF red_items = <<>> THEN <<RowDefaultRed>> ELSE red_items,
                    IF yellow_items = <<>> THEN <<RowDefaultYellow>> ELSE yellow_items,
                    IF green_items = <<>> THEN <<RowDefaultGreen>> ELSE green_items)

\* _extract_nutrition_from_table_row without the default labels
_extract_nutrition_from_table_row_NoDefault(row, headers) ==
  NutritionInfo(ColumnItems(row, RedCol(headers)),
                ColumnItems(row, YellowCol(headers)),
                ColumnItems(row, GreenCol(headers)))

\* _extract_nutrition_from_table_row
_extract_nutrition_from_table_row(row, headers) ==
  LET red_items == ColumnItems(row, RedCol(headers))
      yellow_items == ColumnItems(row, YellowCol(headers))
      green_items == ColumnItems(row, GreenCol(headers))
  IN  IF red_items = <<>> /\ yellow_items = <<>> /\ green_items = <<>>
      THEN NutritionInfo(<<RowDefaultRed>>, <<RowDefaultYellow>>, <<RowDefaultGreen>>)
      ELSE NutritionInfo(red_items, yellow_items, green_items)

(***************************************************************************)
(* The staple-priority reorder of the renderer.                            *)
(***************************************************************************)

\* any(keyword in item.name for keyword in main_dish_keywords)
IsMainDish(item) == \E k \in DOMAIN main_dish_keywords : IsSub(main_dish_keywords[k], item.name)

IsOtherDish(item) == ~IsMainDish(item)

\* the reorder with main_dishes.insert(0, item) in the place of append
RECURSIVE MainDishesReversed(_)
MainDishesReversed(items) ==
  IF items = <<>> THEN <<>>
  ELSE MainDishesReversed(Tail(items))
       \o (IF IsMainDish(Head(items)) THEN <<Head(items)>> ELSE <<>>)

_sort_menu_items_by_priority_Reversed(items) ==
  MainDishesReversed(items) \o SelectSeq(items, IsOtherDish)

\* _sort_menu_items_by_priority: main_dishes + other_dishes
_sort_menu_items_by_priority(items) ==
  SelectSeq(items, IsMainDish) \o SelectSeq(items, IsOtherDish)

(***************************************************************************)
(* The extraction pipeline.                                                *)
(***************************************************************************)

\* the dataclass DailyMenu; date is the label "MM/DD(weekday)"
DailyMenu(date, day_of_week, items, nutr) ==
  [date |-> date, day_of_week |-> day_of_week, menu_items |-> items, nutrition |-> nutr]

DigitChars == <<"0", "1", "2", "3", "4", "5", "6", "7", "8", "9">>

\* \d, among the characters of the model
IsDigit(c) == \E n \in DOMAIN DigitChars : DigitChars[n] = c

DigitVal(c) == (CHOOSE n \in DOMAIN DigitChars : DigitChars[n] = c) - 1

\* the number a string of digits denotes
RECURSIVE NatOf(_)
NatOf(s) ==
  IF s = <<>> THEN 0
  ELSE NatOf(SubSeq(s, 1, Len(s) - 1)) * 10 + DigitVal(s[Len(s)])

\* int(s) for a stripped string: an optional sign and one digit or more,
\* anything else is a ValueError (ok = FALSE)
IntOf(s) ==
  LET signed == s # <<>> /\ s[1] \in {"PLUS", "MINUS"}
      body == IF signed THEN Tail(s) ELSE s
      ok == body # <<>> /\ \A i \in DOMAIN body : IsDigit(body[i])
  IN  [ok |-> ok,
       value |-> IF ~ok THEN 0
                 ELSE IF signed /\ s[1] = "MINUS" THEN 0 - NatOf(body) ELSE NatOf(body)]

\* str(n) for n >= 0
RECURSIVE StrOfNat(_)
StrOfNat(n) ==
  IF n < 10 THEN <<DigitChars[n + 1]>>
  ELSE StrOfNat(n \div 10) \o <<DigitChars[(n % 10) + 1]>>

\* f"{n:02d}"
Format02d(n) ==
  IF n < 0 THEN <<"MINUS">> \o StrOfNat(0 - n)
  ELSE IF n < 10 THEN <<"0">> \o StrOfNat(n)
       ELSE StrOfNat(n)

\* f"{month}/{date:02d}({day})"
Label(mm, date, day) ==
  mm \o <<"SLASH">> \o Format02d(date) \o <<"LPAR">> \o day \o <<"RPAR">>

\* [月火水木金土日]
WeekdayChars == {"k_getsu", "k_hi", "k_mizu", "k_ki", "k_kin", "k_tsuchi", "k_nichi"}

\* _find_date_positions: the words whose stripped text is one or two digits
\* and a weekday character; x1 and y1 are never read and are left out
RECURSIVE _find_date_positions(_)
_find_date_positions(words) ==
  IF words = <<>> THEN <<>>
  ELSE LET word == Head(words)
           s == Strip(word.text)
           n == Len(s)
           match == /\ n \in {2, 3}
                    /\ \A i \in 1..(n - 1) : IsDigit(s[i])
                    /\ s[n] \in WeekdayChars
       IN  (IF match
            THEN <<[date |-> NatOf(SubSeq(s, 1, n - 1)), day |-> <<s[n]>>,
                    x0 |-> word.x0, y0 |-> word.y0]>>
            ELSE <<>>)
           \o _find_date_positions(Tail(words))

\* the tables of the pages, each with the number of its page
RECURSIVE TablesOfPages(_, _)
TablesOfPages(pages, page_num) ==
  IF page_num > Len(pages) THEN <<>>
  ELSE [i \in DOMAIN pages[page_num].tables |->
          [page |-> page_num, table |-> pages[page_num].tables[i]]]
       \o TablesOfPages(pages, page_num + 1)

\* the date positions of the pages, in page order, in one list
RECURSIVE DatePositionsOfPages(_)
DatePositionsOfPages(pages) ==
  IF pages = <<>> THEN <<>>
  ELSE _find_date_positions(Head(pages).words) \o DatePositionsOfPages(Tail(pages))

\* analyze_pdf_structure, for the pages that pdfplumber reads from the file
analyze_pdf_structure(pages) ==
  [pages |-> pages,
   tables |-> TablesOfPages(pages, 1),
   date_positions |-> DatePositionsOfPages(pages)]

\* the end of the maximal run of digits that starts at i
RECURSIVE DigitRunEnd(_, _)
DigitRunEnd(s, i) ==
  IF i + 1 <= Len(s) /\ IsDigit(s[i + 1]) THEN DigitRunEnd(s, i + 1) ELSE i

\* r'(\d+)月.*献.*立.*表' matches at i: digits up to 月, then 献, 立 and 表 in
\* this order on the same line
MonthMatchAt(s, i) ==
  /\ IsDigit(s[i])
  /\ LET q == DigitRunEnd(s, i) + 1
     IN  /\ q <= Len(s)
         /\ s[q] = "k_getsu"
         /\ \E a, b, c \in (q + 1)..Len(s) :
              /\ a < b /\ b < c
              /\ s[a] = "k_kon2" /\ s[b] = "k_date" /\ s[c] = "k_hyou"
              /\ \A k \in q..c : s[k] # "NL"

\* the month of a page text that has a match: the digits of the leftmost one
MonthOfText(s) ==
  LET starts == {i \in DOMAIN s : MonthMatchAt(s, i)}
      i == CHOOSE j \in starts : \A k \in starts : j <= k
  IN  Format02d(NatOf(SubSeq(s, i, DigitRunEnd(s, i))))

\* _extract_month_from_structure
RECURSIVE MonthOfPages(_)
MonthOfPages(pages) ==
  IF pages = <<>> THEN <<"0", "0">>
  ELSE IF \E i \in DOMAIN Head(pages).text : MonthMatchAt(Head(pages).text, i)
       THEN MonthOfText(Head(pages).text)
       ELSE MonthOfPages(Tail(pages))

\* _extract_month_from_structure reading the pages from the last to the first
RECURSIVE MonthOfPages_LastPage(_)
MonthOfPages_LastPage(pages) ==
  IF pages = <<>> THEN <<"0", "0">>
  ELSE LET last == pages[Len(pages)]
       IN  IF \E i \in DOMAIN last.text : MonthMatchAt(last.text, i)
           THEN MonthOfText(last.text)
           ELSE MonthOfPages_LastPage(SubSeq(pages, 1, Len(pages) - 1))

_extract_month_from_structure_LastPage(struct) == MonthOfPages_LastPage(struct.pages)

_extract_month_from_structure(struct) == MonthOfPages(struct.pages)

\* what a call of _parse_menu_text_advanced gives its caller: the list, or
\* the exception
ParseOutcomes(s) ==
  {[raised |-> st.raised, menu_items |-> IF st.raised THEN <<>> ELSE st.menu_items] :
     st \in _parse_menu_text_advanced(s)}

\* A strategy run is [raised, menus]: the list daily_menus built so far and
\* whether an exception has left the strategy.
NoMenus == [raised |-> FALSE, menus |-> <<>>]

\* the record after the work on one day without the test of menu_items
WithDay_AlsoEmpty(run, p, date, day, nutr) ==
  IF p.raised THEN [raised |-> TRUE, menus |-> run.menus]
  ELSE [raised |-> FALSE,
        menus |-> Append(run.menus, DailyMenu(date, day, p.menu_items, nutr))]

\* the record after the work on one day: the exception of the tokenizer
\* leaves the strategy, a day without dishes adds nothing
WithDay(run, p, date, day, nutr) ==
  IF p.raised THEN [raised |-> TRUE, menus |-> run.menus]
  ELSE IF p.menu_items # <<>>
       THEN [raised |-> FALSE,
             menus |-> Append(run.menus, DailyMenu(date, day, p.menu_items, nutr))]
       ELSE run

\* cell.strip() if cell else ''
CellText(cell) == IF Truthy(cell) THEN Strip(cell) ELSE <<>>

\* the first index of x in L
IndexOf(x, L) == CHOOSE i \in DOMAIN L : L[i] = x /\ \A j \in 1..(i - 1) : L[j] # x

HeaderDate == <<"k_nichi">>            \* 日
HeaderDay == <<"k_youbi">>            \* 曜
HeaderMenu == <<"k_kon2", "k_date", "k_mei">>  \* 献立名

\* one row of a menu table when the ValueError of int(date_cell) is not caught
TableRow_AbortOnBadDate(run, row, headers, mm) ==
  LET date_col == IndexOf(HeaderDate, headers)
      day_col == IndexOf(HeaderDay, headers)
      menu_col == IndexOf(HeaderMenu, headers)
  IN  IF \E c \in {date_col, day_col, menu_col} : Len(row) < c THEN {run}
      ELSE LET date_cell == CellText(row[date_col])
               day_cell == CellText(row[day_col])
               menu_cell == CellText(row[menu_col])
               date == IntOf(date_cell)
           IN  IF date_cell = <<>> \/ day_cell = <<>> \/ menu_cell = <<>> THEN {run}
               ELSE IF ~date.ok THEN {[raised |-> TRUE, menus |-> run.menus]}
                    ELSE {WithDay(run, p, Label(mm, date.value, day_cell), day_cell,
                                  _extract_nutrition_from_table_row(row, headers)) :
                            p \in ParseOutcomes(menu_cell)}

\* lines 198-230 of _extract_from_tables: one row of a menu table
TableRow(run, row, headers, mm) ==
  LET date_col == IndexOf(HeaderDate, headers)
      day_col == IndexOf(HeaderDay, headers)
      menu_col == IndexOf(HeaderMenu, headers)
  IN  IF \E c \in {date_col, day_col, menu_col} : Len(row) < c THEN {run}
      ELSE LET date_cell == CellText(row[date_col])
               day_cell == CellText(row[day_col])
               menu_cell == CellText(row[menu_col])
               date == IntOf(date_cell)
           IN  IF date_cell = <<>> \/ day_cell = <<>> \/ menu_cell = <<>> THEN {run}
               ELSE IF ~date.ok THEN {run}
                    ELSE {WithDay(run, p, Label(mm, date.value, day_cell), day_cell,
                                  _extract_nutrition_from_table_row(row, headers)) :
                            p \in ParseOutcomes(menu_cell)}

\* a loop over rows; an exception ends it
RECURSIVE TableRows(_, _, _, _)
TableRows(runs, rows, headers, mm) ==
  IF rows = <<>> THEN runs
  ELSE TableRows(UNION {IF run.raised THEN {run} ELSE TableRow(run, Head(rows), headers, mm) :
                          run \in runs},
                 Tail(rows), headers, mm)

\* the header row of a table, as line 185 reads it
HeadersOf(table) == [i \in DOMAIN table[1] |-> CellText(table[1][i])]

\* line 189: the table has the three labels
IsMenuTable(table) ==
  /\ Len(table) >= 2
  /\ InList(HeaderDate, HeadersOf(table))
  /\ InList(HeaderDay, HeadersOf(table))
  /\ InList(HeaderMenu, HeadersOf(table))

\* the loop over the tables
RECURSIVE TableLoop(_, _, _)
TableLoop(runs, tables, mm) ==
  IF tables = <<>> THEN runs
  ELSE LET table == Head(tables).table
       IN  TableLoop(IF IsMenuTable(table)
                     THEN TableRows(runs, Tail(table), HeadersOf(table), mm)
                     ELSE runs,
                     Tail(tables), mm)

\* _extract_from_tables: the set of its possible runs
_extract_from_tables(struct, mm) == TableLoop({NoMenus}, struct.tables, mm)

\* the default radius of _get_nearby_text
Radius == 100

Abs(n) == IF n < 0 THEN 0 - n ELSE n

\* the texts of the words within the radius of a date position
RECURSIVE NearbyWords(_, _)
NearbyWords(words, date_pos) ==
  IF words = <<>> THEN <<>>
  ELSE (IF /\ Abs(Head(words).x0 - date_pos.x0) < Radius
           /\ Abs(Head(words).y0 - date_pos.y0) < Radius
        THEN <<Head(words).text>>
        ELSE <<>>)
       \o NearbyWords(Tail(words), date_pos)

\* _get_nearby_text
_get_nearby_text(words, date_pos) == Join(<<"SP">>, NearbyWords(words, date_pos))

\* lines 260-275 of _extract_from_positions: one date position on one page
PositionDay(run, words, date_pos, mm) ==
  LET nearby_text == _get_nearby_text(words, date_pos)
  IN  IF ~(date_pos.date <= 31) \/ nearby_text = <<>> THEN {run}
      ELSE {WithDay(run, p, Label(mm, date_pos.date, date_pos.day), date_pos.day,
                    _extract_nutrition_advanced(nearby_text)) :
              p \in ParseOutcomes(nearby_text)}

\* the inner loop, over all the date positions of the structure
RECURSIVE PositionsOfPage(_, _, _, _)
PositionsOfPage(runs, words, date_positions, mm) ==
  IF date_positions = <<>> THEN runs
  ELSE PositionsOfPage(UNION {IF run.raised THEN {run}
                               ELSE PositionDay(run, words, Head(date_positions), mm) :
                               run \in runs},
                       words, Tail(date_positions), mm)

\* the outer loop, over the pages
RECURSIVE PositionLoop(_, _, _, _)
PositionLoop(runs, pages, date_positions, mm) ==
  IF pages = <<>> THEN runs
  ELSE PositionLoop(PositionsOfPage(runs, Head(pages).words, date_positions, mm),
                    Tail(pages), date_positions, mm)

\* _extract_from_positions: the set of its possible runs
_extract_from_positions(struct, mm) ==
  PositionLoop({NoMenus}, struct.pages, struct.date_positions, mm)

\* '\n'.join of the page texts
FullText(pages) == Join(<<"NL">>, [i \in DOMAIN pages |-> pages[i].text])

\* the position after the whitespace that starts at i
RECURSIVE SkipWhitespace(_, _)
SkipWhitespace(s, i) ==
  IF i <= Len(s) /\ s[i] \in Whitespace THEN SkipWhitespace(s, i + 1) ELSE i

\* r'(\d{1,2})\s*([月火水木金土日])' at position i with n digits: the position
\* of the weekday character, else 0
DateMatchWith(s, i, n) ==
  IF i + n - 1 <= Len(s) /\ \A k \in i..(i + n - 1) : IsDigit(s[k])
  THEN LET w == SkipWhitespace(s, i + n)
       IN  IF w <= Len(s) /\ s[w] \in WeekdayChars THEN w ELSE 0
  ELSE 0

\* re.finditer of the date pattern from position i on: two digits are tried
\* before one; a match is (date, day, start, end) with start and end as
\* Python counts them
RECURSIVE DateMatches(_, _)
DateMatches(s, i) ==
  IF i > Len(s) THEN <<>>
  ELSE LET w2 == DateMatchWith(s, i, 2)
           w1 == DateMatchWith(s, i, 1)
           n == IF w2 > 0 THEN 2 ELSE 1
           w == IF w2 > 0 THEN w2 ELSE w1
       IN  IF w > 0
           THEN <<[date |-> NatOf(SubSeq(s, i, i + n - 1)), day |-> <<s[w]>>,
                   start |-> i - 1, end |-> w]>>
                \o DateMatches(s, w + 1)
           ELSE DateMatches(s, i + 1)

\* lines 309-313: the matches with a date from 1 to 31
ValidDate(d) == 1 <= d.date /\ d.date <= 31

KeptDates(full_text) == SelectSeq(DateMatches(full_text, 1), ValidDate)

\* the text from the end of date i to the start of the next match of the
\* date pattern, whatever its number
MenuTextOf_ToNextMatch(full_text, dates, i) ==
  LET later == SelectSeq(DateMatches(full_text, 1), LAMBDA d : d.start >= dates[i].end)
      next_start == IF later # <<>> THEN later[1].start ELSE Len(full_text)
  IN  SubSeq(full_text, dates[i].end + 1, next_start)

\* lines 318-321: the text from the end of date i to the start of the next
MenuTextOf(full_text, dates, i) ==
  LET next_start == IF i + 1 <= Len(dates) THEN dates[i + 1].start ELSE Len(full_text)
  IN  SubSeq(full_text, dates[i].end + 1, next_start)

\* the loop over the dates
RECURSIVE TextLoop(_, _, _, _, _)
TextLoop(runs, full_text, dates, i, mm) ==
  IF i > Len(dates) THEN runs
  ELSE LET menu_text == MenuTextOf(full_text, dates, i)
       IN  TextLoop(UNION {IF run.raised THEN {run}
                            ELSE {WithDay(run, p, Label(mm, dates[i].date, dates[i].day),
                                          dates[i].day, _extract_nutrition_advanced(menu_text)) :
                                    p \in ParseOutcomes(menu_text)} :
                            run \in runs},
                    full_text, dates, i + 1, mm)

\* _extract_from_text_analysis: the set of its possible runs
_extract_from_text_analysis(struct, mm) ==
  LET full_text == FullText(struct.pages)
  IN  TextLoop({NoMenus}, full_text, KeptDates(full_text), 1, mm)

(***************************************************************************)
(* SpecTok: one run of _parse_menu_text_advanced, a step per loop          *)
(* iteration, on every text made of at most MaxPieces pieces and on the     *)
(* menu cell ご飯 味噌汁 牛乳.                                             *)
(***************************************************************************)

MaxPieces == 3

TokPieces ==
  <<
    <<"SP">>,                                                       \* ' '
    <<"NL">>,                                                       \* newline
    <<"go", "k_han">>,                                              \* ご飯
    <<"wa", "ka", "me", "go", "k_han">>,                            \* わかめご飯
    <<"k_aji", "k_so", "k_shiru">>,                                 \* 味噌汁
    <<"k_gyu", "k_nyu">>,                                           \* 牛乳
    <<"k_shiro">>,                                                  \* 白
    <<"sa", "ba", "no", "k_shio", "k_yaki", "ki">>,                 \* さばの塩焼き
    <<"sa", "n", "ma", "no", "k_shio", "k_yaki", "ki">>,            \* さんまの塩焼き
    <<"k_shiro", "k_wa", "e">>,                                     \* 白和え
    <<"k_wa", "e">>,                                                \* 和え
    <<"k_iri", "ri">>                                               \* 入り
  >>

\* the texts made of at most k pieces
RECURSIVE PieceTexts(_)
PieceTexts(k) ==
  IF k = 0 THEN {<<>>}
  ELSE LET shorter == PieceTexts(k - 1)
       IN  shorter \cup {t \o TokPieces[i] : t \in shorter, i \in DOMAIN TokPieces}

TokInit ==
  /\ tk_text \in PieceTexts(MaxPieces)
                 \cup {<<"go", "k_han", "SP", "k_aji", "k_so", "k_shiru", "SP", "k_gyu", "k_nyu">>}
  /\ tk_pc = "start"
  /\ tk_parts = <<>>
  /\ tk_dishes = <<>>
  /\ menu_items = <<>>
  /\ found_dishes = {}
  /\ structure = Idle /\ pl_pc = Idle /\ month = Idle /\ daily_menus = Idle /\ tried = Idle
  /\ output_path = Idle /\ rendered = Idle /\ exit_status = Idle
  /\ so_items = Idle /\ so_pc = Idle /\ so_result = Idle
  /\ nu_in = Idle /\ nu_pc = Idle /\ nutrition = Idle

\* lines 343-354: clean the text and split it into parts
CleanAndSplit ==
  /\ tk_pc = "start"
  /\ tk_parts' = PartsOf(CleanText(tk_text))
  /\ tk_pc' = "parts"
  /\ UNCHANGED <<tk_text, tk_dishes, menu_items, found_dishes, pipeVars, nutrVars, drvVars, sortVars>>

\* lines 357-371: the next part of the first loop and its candidates
NextPart ==
  /\ tk_pc = "parts"
  /\ tk_dishes = <<>>
  /\ tk_parts # <<>>
  /\ tk_dishes' = DishesOfPart(Head(tk_parts))
  /\ tk_parts' = Tail(tk_parts)
  /\ UNCHANGED <<tk_text, tk_pc, menu_items, found_dishes, pipeVars, nutrVars, drvVars, sortVars>>

\* lines 373-382 and 386-392: one candidate of the first or of the second loop
TakeDish ==
  /\ tk_pc \in {"parts", "pattern"}
  /\ tk_dishes # <<>>
  /\ \E st \in TokStep([menu_items |-> menu_items, found_dishes |-> found_dishes, raised |-> FALSE],
                       Head(tk_dishes), tk_pc = "parts") :
       /\ menu_items' = st.menu_items
       /\ found_dishes' = st.found_dishes
       /\ tk_pc' = IF st.raised THEN "raised" ELSE tk_pc
  /\ tk_dishes' = Tail(tk_dishes)
  /\ UNCHANGED <<tk_text, tk_parts, pipeVars, nutrVars, drvVars, sortVars>>

\* line 385: the candidates of the second loop
PatternPass ==
  /\ tk_pc = "parts"
  /\ tk_dishes = <<>>
  /\ tk_parts = <<>>
  /\ tk_dishes' = _extract_dishes_by_pattern(CleanText(tk_text))
  /\ tk_pc' = "pattern"
  /\ UNCHANGED <<tk_text, tk_parts, menu_items, found_dishes, pipeVars, nutrVars, drvVars, sortVars>>

\* line 394: return menu_items
TokReturn ==
  /\ tk_pc = "pattern"
  /\ tk_dishes = <<>>
  /\ tk_pc' = "done"
  /\ UNCHANGED <<tk_text, tk_parts, tk_dishes, menu_items, found_dishes, pipeVars, nutrVars, drvVars, sortVars>>

TokNext == CleanAndSplit \/ NextPart \/ TakeDish \/ PatternPass \/ TokReturn

SpecTok == TokInit /\ [][TokNext]_vars

\* the names of a list of MenuItem
Names(items) == [i \in DOMAIN items |-> items[i].name]

\* the candidates of the first loop for the text of the run
FirstLoopNames == Range(FirstLoopDishes(PartsOf(CleanText(tk_text))))

\* the steps agree with the function: what a finished run holds is one of the
\* final states of _parse_menu_text_advanced(tk_text)
StepsAgree ==
  tk_pc \in {"done", "raised"} =>
    \E st \in _parse_menu_text_advanced(tk_text) :
      /\ st.raised = (tk_pc = "raised")
      /\ st.menu_items = menu_items

\* the order in which the set is iterated does not change what a run returns:
\* in the runs reached, the outcomes of a step differ at most in found_dishes
OrderIrrelevant ==
  (tk_pc \in {"parts", "pattern"} /\ tk_dishes # <<>>) =>
    Cardinality({<<st.raised, st.menu_items>> :
                   st \in TokStep([menu_items |-> menu_items, found_dishes |-> found_dishes,
                                   raised |-> FALSE],
                                  Head(tk_dishes), tk_pc = "parts")}) = 1

(***************************************************************************)
(* SpecNutr: one call of a nutrition extractor, _extract_nutrition_advanced *)
(* on a text or _extract_nutrition_from_table_row on a row and headers.    *)
(***************************************************************************)

\* the texts are made of the first NutPieces pieces of NutPool
NutPieces == 12

NutPool ==
  <<
    <<"k_gyu", "k_nyu">>,  \* 牛乳
    <<"k_tori", "k_niku">>,  \* 鶏肉
    <<"k_tamago">>,  \* 卵
    <<"k_shou", "k_mugi">>,  \* 小麦
    <<"PA", "N">>,  \* パン
    <<"k_mizu">>,  \* 水
    <<"k_tama", "ne", "gi">>,  \* 玉ねぎ
    <<"k_ya", "k_sai">>,  \* 野菜
    <<"k_nin", "k_jin">>,  \* 人参
    <<"k_dai", "k_kon">>,  \* 大根
    <<"k_kob", "k_nuno">>,  \* 昆布
    <<"wa", "ka", "me">>,  \* わかめ
    <<"k_kome">>,  \* 米
    <<"k_aji", "k_so", "k_shiru">>  \* 味噌汁
  >>

\* the pieces of a set of indices, in rising or in falling order
RECURSIVE PickRising(_, _)
PickRising(S, i) ==
  IF i > NutPieces THEN <<>>
  ELSE (IF i \in S THEN NutPool[i] ELSE <<>>) \o PickRising(S, i + 1)

RECURSIVE PickFalling(_, _)
PickFalling(S, i) ==
  IF i < 1 THEN <<>>
  ELSE (IF i \in S THEN NutPool[i] ELSE <<>>) \o PickFalling(S, i - 1)

NutTexts ==
  {PickRising(S, 1) : S \in SUBSET (1..NutPieces)}
    \cup {PickFalling(S, NutPieces) : S \in SUBSET (1..NutPieces)}

\* headers and rows have at most MaxNutCols cells
MaxNutCols == 3

HeaderCells ==
  {
    <<"a", "ka">>,  \* あか
    <<"ki", "i", "ro">>,  \* きいろ
    <<"mi", "do", "ri">>,  \* みどり
    <<"k_kon2", "k_date", "k_mei">>,  \* 献立名
    <<"a", "ka", "NAKA", "ki", "i", "ro">>  \* あか・きいろ
  }

RowCells ==
  {
    NoneCell,  \* None
    <<"TOUTEN", "SP">>,  \* 、 
    <<"k_tori", "k_niku", "COMMA", "SP", "k_tamago">>,  \* 鶏肉, 卵
    <<"go", "k_han">>,  \* ご飯
    <<"k_nin", "k_jin", "ZSP", "k_dai", "k_kon", "NL">>  \* 人参\u3000大根\n
  }

\* the lists of at most n elements of S
RECURSIVE ListsUpTo(_, _)
ListsUpTo(S, n) ==
  IF n = 0 THEN {<<>>}
  ELSE LET shorter == ListsUpTo(S, n - 1)
       IN  shorter \cup {Append(l, x) : l \in shorter, x \in S}

NutInit ==
  /\ \/ \E s \in NutTexts : nu_in = [kind |-> "text", text |-> s]
     \/ \E headers \in ListsUpTo(HeaderCells, MaxNutCols), row \in ListsUpTo(RowCells, MaxNutCols) :
          nu_in = [kind |-> "row", headers |-> headers, row |-> row]
  /\ nu_pc = "call"
  /\ nutrition = Idle
  /\ tk_text = Idle /\ tk_pc = Idle /\ tk_parts = Idle /\ tk_dishes = Idle
  /\ menu_items = Idle /\ found_dishes = Idle
  /\ structure = Idle /\ pl_pc = Idle /\ month = Idle /\ daily_menus = Idle /\ tried = Idle
  /\ output_path = Idle /\ rendered = Idle /\ exit_status = Idle
  /\ so_items = Idle /\ so_pc = Idle /\ so_result = Idle

\* a call of _extract_nutrition_advanced
ExtractNutritionAdvanced ==
  /\ nu_pc = "call"
  /\ nu_in.kind = "text"
  /\ nutrition' = _extract_nutrition_advanced(nu_in.text)
  /\ nu_pc' = "returned"
  /\ UNCHANGED <<nu_in, tokVars, pipeVars, drvVars, sortVars>>

\* a call of _extract_nutrition_from_table_row
ExtractNutritionFromTableRow ==
  /\ nu_pc = "call"
  /\ nu_in.kind = "row"
  /\ nutrition' = _extract_nutrition_from_table_row(nu_in.row, nu_in.headers)
  /\ nu_pc' = "returned"
  /\ UNCHANGED <<nu_in, tokVars, pipeVars, drvVars, sortVars>>

NutNext == ExtractNutritionAdvanced \/ ExtractNutritionFromTableRow

SpecNutr == NutInit /\ [][NutNext]_vars

(***************************************************************************)
(* SpecPipe: main and convert: analyze_pdf_structure on a document, then   *)
(* extract_menu_data_from_structure, one step for each of its statements,  *)
(* then the call of the renderer and the exit status.                      *)
(***************************************************************************)

\* a document has at most MaxPages pages
MaxPages == 2

\* what pdfplumber reads from a page: its text, its tables and its words
PageOptions ==
  <<
    \* an empty page:
    [text |-> <<>>,
     tables |-> <<>>,
     words |-> <<>>],
    \* a menu table with nutrition columns; its second row has day 45 and partly blank nutrition cells:
    \*   row 日 | 曜 | 献立名 | あか | きいろ | みどり
    \*   row 3 | 月 | ご飯 味噌汁 牛乳 | 鶏肉, 卵 | ご飯 | 人参\u3000大根
    \*   row 45 | 火 | パン 牛乳 | None | パン | 
    [text |-> <<>>,
     tables |-> <<<<<<<<"k_nichi">>, <<"k_youbi">>, <<"k_kon2", "k_date", "k_mei">>, <<"a", "ka">>, <<"ki", "i", "ro">>, <<"mi", "do", "ri">>>>,
                 <<<<"3">>, <<"k_getsu">>, <<"go", "k_han", "SP", "k_aji", "k_so", "k_shiru", "SP", "k_gyu", "k_nyu">>, <<"k_tori", "k_niku", "COMMA", "SP", "k_tamago">>, <<"go", "k_han">>, <<"k_nin", "k_jin", "ZSP", "k_dai", "k_kon">>>>,
                 <<<<"4", "5">>, <<"k_hi">>, <<"PA", "N", "SP", "k_gyu", "k_nyu">>, NoneCell, <<"PA", "N">>, <<>>>>>>>>,
     words |-> <<>>],
    \* a menu table with a date cell that is no number, a short row, and a weekday cell 祝:
    \*   row  日 | 曜  | 献立名
    \*   row 月 | 月 | ご飯
    \*   row 5
    \*   row  4  | 祝 | わかめご飯\n牛乳
    [text |-> <<>>,
     tables |-> <<<<<<<<"SP", "k_nichi">>, <<"k_youbi", "SP">>, <<"k_kon2", "k_date", "k_mei">>>>,
                 <<<<"k_getsu">>, <<"k_getsu">>, <<"go", "k_han">>>>,
                 <<<<"5">>>>,
                 <<<<"SP", "4", "SP">>, <<"k_shuku">>, <<"wa", "ka", "me", "go", "k_han", "NL", "k_gyu", "k_nyu">>>>>>>>,
     words |-> <<>>],
    \* a menu table whose only row has a blank date cell, a table without the weekday label, a table of one row:
    \*   row 日 | 曜 | 献立名
    \*   row  | 月 | ご飯
    \*   row 日 | 献立名
    \*   row 3 | ご飯
    \*   row 日 | 曜 | 献立名
    [text |-> <<>>,
     tables |-> <<<<<<<<"k_nichi">>, <<"k_youbi">>, <<"k_kon2", "k_date", "k_mei">>>>,
                 <<<<>>, <<"k_getsu">>, <<"go", "k_han">>>>>>,
                <<<<<<"k_nichi">>, <<"k_kon2", "k_date", "k_mei">>>>,
                 <<<<"3">>, <<"go", "k_han">>>>>>,
                <<<<<<"k_nichi">>, <<"k_youbi">>, <<"k_kon2", "k_date", "k_mei">>>>>>>>,
     words |-> <<>>],
    \* a menu table with the menu cell 白ご飯:
    \*   row 日 | 曜 | 献立名
    \*   row 6 | 水 | 白ご飯
    [text |-> <<>>,
     tables |-> <<<<<<<<"k_nichi">>, <<"k_youbi">>, <<"k_kon2", "k_date", "k_mei">>>>,
                 <<<<"6">>, <<"k_mizu">>, <<"k_shiro", "go", "k_han">>>>>>>>,
     words |-> <<>>],
    \* words: 3月 with dishes near it, 0火 and 45水 with dishes near them:
    \*   word 3月 at (0, 0)
    \*   word ご飯 at (50, 0)
    \*   word 牛乳 at (50, 99)
    \*   word パン at (100, 0)
    \*   word 0火 at (300, 300)
    \*   word 味噌汁 at (350, 300)
    \*   word 45水 at (600, 600)
    \*   word 麦茶 at (600, 650)
    [text |-> <<>>,
     tables |-> <<>>,
     words |-> <<[text |-> <<"3", "k_getsu">>, x0 |-> 0, y0 |-> 0],
               [text |-> <<"go", "k_han">>, x0 |-> 50, y0 |-> 0],
               [text |-> <<"k_gyu", "k_nyu">>, x0 |-> 50, y0 |-> 99],
               [text |-> <<"PA", "N">>, x0 |-> 100, y0 |-> 0],
               [text |-> <<"0", "k_hi">>, x0 |-> 300, y0 |-> 300],
               [text |-> <<"k_aji", "k_so", "k_shiru">>, x0 |-> 350, y0 |-> 300],
               [text |-> <<"4", "5", "k_mizu">>, x0 |-> 600, y0 |-> 600],
               [text |-> <<"k_mugi", "k_cha">>, x0 |-> 600, y0 |-> 650]>>],
    \* a text with the dates 3, 45, 0 and 12:
    \*   text 3月ご飯 牛乳\n45 火パン\n0水麦茶\n12\u3000木\n味噌汁
    [text |-> <<"3", "k_getsu", "go", "k_han", "SP", "k_gyu", "k_nyu", "NL", "4", "5", "SP", "k_hi", "PA", "N", "NL", "0", "k_mizu", "k_mugi", "k_cha", "NL", "1", "2", "ZSP", "k_ki", "NL", "k_aji", "k_so", "k_shiru">>,
     tables |-> <<>>,
     words |-> <<>>],
    \* a text with a month header and one date:
    \*   text ☆4月の献立表\n5火ご飯
    [text |-> <<"STAR", "4", "k_getsu", "no", "k_kon2", "k_date", "k_hyou", "NL", "5", "k_hi", "go", "k_han">>,
     tables |-> <<>>,
     words |-> <<>>],
    \* a page with a table that gives no record, words and text:
    \*   row 日 | 曜 | 献立名
    \*   row x | 月 | ご飯
    \*   word  8土  at (10, 10)
    \*   word 牛乳 at (20, 20)
    \*   text 7 金 わかめご飯
    [text |-> <<"7", "SP", "k_kin", "SP", "wa", "ka", "me", "go", "k_han">>,
     tables |-> <<<<<<<<"k_nichi">>, <<"k_youbi">>, <<"k_kon2", "k_date", "k_mei">>>>,
                 <<<<"LATIN_X">>, <<"k_getsu">>, <<"go", "k_han">>>>>>>>,
     words |-> <<[text |-> <<"SP", "8", "k_tsuchi", "SP">>, x0 |-> 10, y0 |-> 10],
               [text |-> <<"k_gyu", "k_nyu">>, x0 |-> 20, y0 |-> 20]>>],
    \* a text with another month header and no date after it:
    \*   text 12月分の献立表
    [text |-> <<"1", "2", "k_getsu", "k_bun", "no", "k_kon2", "k_date", "k_hyou">>,
     tables |-> <<>>,
     words |-> <<>>]
  >>

Docs == ListsUpTo(Range(PageOptions), MaxPages)

PipeInit ==
  /\ structure = [pages |-> <<>>, tables |-> <<>>, date_positions |-> <<>>]
  /\ pl_pc = "main"
  /\ month = <<>>
  /\ daily_menus = <<>>
  /\ tried = <<>>
  /\ tk_text = Idle /\ tk_pc = Idle /\ tk_parts = Idle /\ tk_dishes = Idle
  /\ menu_items = Idle /\ found_dishes = Idle
  /\ nu_in = Idle /\ nu_pc = Idle /\ nutrition = Idle
  /\ output_path = Unset /\ rendered = <<>> /\ exit_status = Unset
  /\ so_items = Idle /\ so_pc = Idle /\ so_result = Idle

\* main up to the call of convert: sys.exit(1) unless there is one argument
\* and it is the path of a file
MainStart ==
  /\ pl_pc = "main"
  /\ \E argc \in {1, 2, 3}, exists \in BOOLEAN :
       IF argc # 2 \/ ~exists
       THEN pl_pc' = "rejected" /\ exit_status' = 1
       ELSE pl_pc' = "analyze" /\ UNCHANGED exit_status
  /\ UNCHANGED <<structure, month, daily_menus, tried, output_path, rendered,
                 tokVars, nutrVars, sortVars>>

\* convert: structure = self.analyze_pdf_structure(pdf_path)
AnalyzePdfStructure ==
  /\ pl_pc = "analyze"
  /\ \E pages \in Docs : structure' = analyze_pdf_structure(pages)
  /\ pl_pc' = "month"
  /\ UNCHANGED <<month, daily_menus, tried, tokVars, nutrVars, drvVars, sortVars>>

\* daily_menus = []; month = self._extract_month_from_structure(structure)
ExtractMonth ==
  /\ pl_pc = "month"
  /\ month' = _extract_month_from_structure(structure)
  /\ daily_menus' = <<>>
  /\ pl_pc' = "tables"
  /\ UNCHANGED <<structure, tried, tokVars, nutrVars, drvVars, sortVars>>

\* a strategy has run: its list is assigned to daily_menus, or its exception
\* leaves extract_menu_data_from_structure
StrategyDone(strategy, run, next_pc) ==
  IF run.raised
  THEN /\ pl_pc' = "raised"
       /\ UNCHANGED <<daily_menus, tried>>
  ELSE /\ daily_menus' = run.menus
       /\ tried' = Append(tried, [strategy |-> strategy, result |-> run.menus])
       /\ pl_pc' = next_pc

\* if structure['tables']: daily_menus = self._extract_from_tables(...)
TablesStrategy ==
  /\ pl_pc = "tables"
  /\ structure.tables # <<>>
  /\ \E run \in _extract_from_tables(structure, month) :
       StrategyDone("tables", run, "positions")
  /\ UNCHANGED <<structure, month, tokVars, nutrVars, drvVars, sortVars>>

SkipTables ==
  /\ pl_pc = "tables"
  /\ structure.tables = <<>>
  /\ pl_pc' = "positions"
  /\ UNCHANGED <<structure, month, daily_menus, tried, tokVars, nutrVars, drvVars, sortVars>>

\* the position strategy without the test of line 153
PositionsStrategy_Always ==
  /\ pl_pc = "positions"
  /\ \E run \in _extract_from_positions(structure, month) :
       StrategyDone("positions", run, "text")
  /\ UNCHANGED <<structure, month, tokVars, nutrVars, drvVars, sortVars>>

\* if not daily_menus: daily_menus = self._extract_from_positions(...)
PositionsStrategy ==
  /\ pl_pc = "positions"
  /\ daily_menus = <<>>
  /\ \E run \in _extract_from_positions(structure, month) :
       StrategyDone("positions", run, "text")
  /\ UNCHANGED <<structure, month, tokVars, nutrVars, drvVars, sortVars>>

SkipPositions ==
  /\ pl_pc = "positions"
  /\ daily_menus # <<>>
  /\ pl_pc' = "text"
  /\ UNCHANGED <<structure, month, daily_menus, tried, tokVars, nutrVars, drvVars, sortVars>>

\* the text strategy without the test of line 157
TextStrategy_Always ==
  /\ pl_pc = "text"
  /\ \E run \in _extract_from_text_analysis(structure, month) :
       StrategyDone("text", run, "return")
  /\ UNCHANGED <<structure, month, tokVars, nutrVars, drvVars, sortVars>>

\* if not daily_menus: daily_menus = self._extract_from_text_analysis(...)
TextStrategy ==
  /\ pl_pc = "text"
  /\ daily_menus = <<>>
  /\ \E run \in _extract_from_text_analysis(structure, month) :
       StrategyDone("text", run, "return")
  /\ UNCHANGED <<structure, month, tokVars, nutrVars, drvVars, sortVars>>

SkipText ==
  /\ pl_pc = "text"
  /\ daily_menus # <<>>
  /\ pl_pc' = "return"
  /\ UNCHANGED <<structure, month, daily_menus, tried, tokVars, nutrVars, drvVars, sortVars>>

\* return daily_menus
Return ==
  /\ pl_pc = "return"
  /\ pl_pc' = "returned"
  /\ UNCHANGED <<structure, month, daily_menus, tried, tokVars, nutrVars, drvVars, sortVars>>

\* convert after the extraction, with every record as the renderer gets it
ConvertFinish_AlwaysRender ==
  /\ pl_pc = "returned"
  /\ output_path' = <<"kondate_check_">> \o month \o <<".pdf">>
  /\ rendered' = Append(rendered, [daily_menus |-> daily_menus, output_path |-> output_path'])
  /\ pl_pc' = "converted"
  /\ UNCHANGED <<structure, month, daily_menus, tried, exit_status, tokVars, nutrVars, sortVars>>

\* convert after the extraction: '' without records, else the call of
\* create_checklist_pdf with the records and the path kondate_check_MM.pdf
ConvertFinish ==
  /\ pl_pc = "returned"
  /\ IF daily_menus = <<>>
     THEN /\ output_path' = <<>>
          /\ UNCHANGED rendered
     ELSE /\ output_path' = <<"kondate_check_">> \o _extract_month_from_structure(structure) \o <<".pdf">>
          /\ rendered' = Append(rendered, [daily_menus |-> daily_menus, output_path |-> output_path'])
  /\ pl_pc' = "converted"
  /\ UNCHANGED <<structure, month, daily_menus, tried, exit_status, tokVars, nutrVars, sortVars>>

\* main after convert: sys.exit(1) when the path is '', else the normal end
MainReport ==
  /\ pl_pc = "converted"
  /\ exit_status' = (IF output_path # <<>> THEN 0 ELSE 1)
  /\ pl_pc' = "exited"
  /\ UNCHANGED <<structure, month, daily_menus, tried, output_path, rendered,
                 tokVars, nutrVars, sortVars>>

PipeNext ==
  \/ MainStart
  \/ AnalyzePdfStructure
  \/ ExtractMonth
  \/ TablesStrategy
  \/ SkipTables
  \/ PositionsStrategy
  \/ SkipPositions
  \/ TextStrategy
  \/ SkipText
  \/ Return
  \/ ConvertFinish
  \/ MainReport

SpecPipe == PipeInit /\ [][PipeNext]_vars

(***************************************************************************)
(* SpecSort: one call of _sort_menu_items_by_priority on a list of menu    *)
(* items.                                                                  *)
(***************************************************************************)

\* the lists have at most MaxItems items
MaxItems == 4

\* the names of the items: ご飯、味噌汁、麦ご飯、ロールパン、牛乳
SortNames ==
  {
    <<"go", "k_han">>,
    <<"k_aji", "k_so", "k_shiru">>,
    <<"k_mugi", "go", "k_han">>,
    <<"RO", "CHOON", "RU", "PA", "N">>,
    <<"k_gyu", "k_nyu">>
  }

SortItems == {MenuItem(n, _categorize_dish_advanced(n)) : n \in SortNames}

SortInit ==
  /\ so_items \in ListsUpTo(SortItems, MaxItems)
  /\ so_pc = "call"
  /\ so_result = <<>>
  /\ tk_text = Idle /\ tk_pc = Idle /\ tk_parts = Idle /\ tk_dishes = Idle
  /\ menu_items = Idle /\ found_dishes = Idle
  /\ structure = Idle /\ pl_pc = Idle /\ month = Idle /\ daily_menus = Idle /\ tried = Idle
  /\ output_path = Idle /\ rendered = Idle /\ exit_status = Idle
  /\ nu_in = Idle /\ nu_pc = Idle /\ nutrition = Idle

\* sorted_items = self._sort_menu_items_by_priority(daily_menu.menu_items)
SortMenuItems ==
  /\ so_pc = "call"
  /\ so_result' = _sort_menu_items_by_priority(so_items)
  /\ so_pc' = "returned"
  /\ UNCHANGED <<so_items, tokVars, pipeVars, nutrVars, drvVars>>

SortNext == SortMenuItems

SpecSort == SortInit /\ [][SortNext]_vars

(***************************************************************************)
(* The claims.                                                             *)
(***************************************************************************)

\* a is a strict substring of b
StrictSub(a, b) == a # b /\ IsSub(a, b)

\* C1: at every point of a run of the tokenizer, and so in the list it
\* returns, no two entries of menu_items have the same name; this includes
\* the state in which _should_include_dish has removed a shorter name from
\* found_dishes, and the entries added by the second loop.
C1_UniqueNames ==
  (tk_pc # Idle) =>
    \A i, j \in DOMAIN menu_items :
      menu_items[i].name = menu_items[j].name => i = j

\* a returned list of two entries or more, one of them a name only the second
\* loop proposed, for a text where a candidate came up again after it was accepted
C1_Witness ==
  /\ tk_pc = "done"
  /\ Len(menu_items) >= 2
  /\ \E i \in DOMAIN menu_items : menu_items[i].name \notin FirstLoopNames
  /\ \E i \in DOMAIN menu_items :
       InList(menu_items[i].name, _extract_dishes_by_pattern(CleanText(tk_text)))
       /\ menu_items[i].name \in FirstLoopNames

\* C2: a substring collision resolves to the longer name only, also when the
\* shorter name came first: when a candidate that strictly contains an accepted
\* name is handled, the list afterwards holds the candidate and no name that
\* it strictly contains.
C2_CollisionKeepsLonger ==
  [][ (/\ tk_pc \in {"parts", "pattern"}
       /\ tk_dishes # <<>>
       /\ _is_valid_dish_name(Head(tk_dishes))
       /\ \E i \in DOMAIN menu_items : StrictSub(menu_items[i].name, Head(tk_dishes)))
      => (/\ InList(Head(tk_dishes), Names(menu_items'))
          /\ \A i \in DOMAIN menu_items' : ~StrictSub(menu_items'[i].name, Head(tk_dishes))) ]_vars

\* C3: the tokenizer returns a list for every text: no run ends in an
\* exception.
C3_NeverRaises == tk_pc # "raised"

\* the indices of the keywords of a list that occur in s
Hits(keywords, s) == {i \in DOMAIN keywords : IsSub(keywords[i], s)}

\* the k-th smallest element of a set of numbers
KthOf(S, k) == CHOOSE i \in S : Cardinality({h \in S : h < i}) = k - 1

\* group is what the free-text extraction is to return for one lexicon list:
\* the default alone without a hit, else the first hits in list order, cap at most
GroupAsClaimed(group, keywords, s, default, cap) ==
  LET hits == Hits(keywords, s)
      n == Cardinality(hits)
  IN  /\ Len(group) >= 1
      /\ Len(group) <= cap
      /\ hits = {} => group = <<default>>
      /\ hits # {} =>
           /\ Len(group) = (IF n < cap THEN n ELSE cap)
           /\ \A k \in DOMAIN group : group[k] = keywords[KthOf(hits, k)]

\* C9: the free-text nutrition extraction returns three groups that are not
\* empty and within the caps 4, 2 and 6; a group without a keyword hit is its
\* one default label, any other is the first matched keywords in the order of
\* the lexicon list, none repeated.
C9_FreeTextGroups ==
  (nu_pc = "returned" /\ nu_in.kind = "text") =>
    /\ GroupAsClaimed(nutrition.red, nutrition_keywords_red, nu_in.text,
                      <<"TA", "N", "PA", "KU", "k_shitsu", "k_shoku", "k_hin">>, 4)
    /\ GroupAsClaimed(nutrition.yellow, nutrition_keywords_yellow, nu_in.text,
                      <<"k_tan", "k_mizu", "k_ka", "k_mono">>, 2)
    /\ GroupAsClaimed(nutrition.green, nutrition_keywords_green, nu_in.text,
                      <<"k_ya", "k_sai", "k_rui">>, 6)

\* a text with more hits than the cap in every group, and one with a cut
\* group next to a default group
C9_Witness ==
  /\ nu_pc = "returned"
  /\ nu_in.kind = "text"
  /\ Cardinality(Hits(nutrition_keywords_red, nu_in.text)) > 4
  /\ Len(nutrition.red) = 4
  /\ Hits(nutrition_keywords_yellow, nu_in.text) = {}
  /\ Len(nutrition.yellow) = 1
  /\ Cardinality(Hits(nutrition_keywords_green, nu_in.text)) > 6

\* the positions of a cell at which an item starts and ends: the maximal runs
\* of characters that are no comma, ideographic comma or whitespace
IsItemChar(cell, i) ==
  i \in DOMAIN cell /\ cell[i] \notin {"COMMA", "TOUTEN", "SP", "NL", "TAB", "ZSP"}

ItemStarts(cell) == {i \in DOMAIN cell : IsItemChar(cell, i) /\ ~IsItemChar(cell, i - 1)}

ItemEnd(cell, a) ==
  CHOOSE b \in a..Len(cell) :
    /\ \A i \in a..b : IsItemChar(cell, i)
    /\ ~IsItemChar(cell, b + 1)

\* the items of the cell of column col of a row, in cell order; none when
\* there is no such column (col = 0), the row is too short or the cell is blank
ItemsUnder(row, col) ==
  IF col = 0 \/ col > Len(row) THEN <<>>
  ELSE IF row[col] = NoneCell THEN <<>>
       ELSE LET cell == row[col]
                starts == ItemStarts(cell)
            IN  [k \in 1..Cardinality(starts) |->
                   SubSeq(cell, KthOf(starts, k), ItemEnd(cell, KthOf(starts, k)))]

\* the result for three groups of items: the three default labels when all
\* are empty, else the groups as they are
RowResult(r, y, g) ==
  IF r = <<>> /\ y = <<>> /\ g = <<>>
  THEN [red |-> <<<<"k_niku", "NAKA", "k_sakana", "NAKA", "k_tamago">>>>,
        yellow |-> <<<<"go", "k_han", "NAKA", "PA", "N">>>>,
        green |-> <<<<"k_ya", "k_sai", "NAKA", "k_kudamono", "k_mono">>>>]
  ELSE [red |-> r, yellow |-> y, green |-> g]

\* the columns whose header contains a marker, {0} when there is none
ColumnsWith(marker, headers) ==
  LET cols == {i \in DOMAIN headers : IsSub(marker, headers[i])}
  IN  IF cols = {} THEN {0} ELSE cols

\* C10 as claimed: every group is the items of the cell under a header that
\* contains the marker of the group, all of them, in cell order; a missing,
\* out-of-range or blank column gives an empty group; the default labels
\* replace the groups only when all three are empty.
C10_AnyHeaderWithMarker ==
  (nu_pc = "returned" /\ nu_in.kind = "row") =>
    \E cr \in ColumnsWith(<<"a", "ka">>, nu_in.headers),
       cy \in ColumnsWith(<<"ki", "i", "ro">>, nu_in.headers),
       cg \in ColumnsWith(<<"mi", "do", "ri">>, nu_in.headers) :
      nutrition = RowResult(ItemsUnder(nu_in.row, cr), ItemsUnder(nu_in.row, cy),
                            ItemsUnder(nu_in.row, cg))

\* the column of a group: the last header that contains the marker of the
\* group and none of the markers in earlier, 0 when there is none
ColumnOf(marker, earlier, headers) ==
  LET cols == {i \in DOMAIN headers :
                 /\ IsSub(marker, headers[i])
                 /\ \A m \in earlier : ~IsSub(m, headers[i])}
  IN  IF cols = {} THEN 0 ELSE CHOOSE i \in cols : \A j \in cols : j <= i

\* C10 amended: a header counts for the first of the markers あか, きいろ,
\* みどり that it contains, and the last such header gives the column of the
\* group; the rest is as claimed.
C10_LastHeaderFirstMarker ==
  (nu_pc = "returned" /\ nu_in.kind = "row") =>
    LET a == <<"a", "ka">>
        k == <<"ki", "i", "ro">>
        m == <<"mi", "do", "ri">>
    IN  nutrition = RowResult(ItemsUnder(nu_in.row, ColumnOf(a, {}, nu_in.headers)),
                              ItemsUnder(nu_in.row, ColumnOf(k, {a}, nu_in.headers)),
                              ItemsUnder(nu_in.row, ColumnOf(m, {a, k}, nu_in.headers)))

\* a row whose あか cell has two items while its きいろ column is blank or out
\* of range: the result keeps the two items and an empty きいろ group
C10_Witness ==
  /\ nu_pc = "returned"
  /\ nu_in.kind = "row"
  /\ \E i \in DOMAIN nu_in.headers : nu_in.headers[i] = <<"ki", "i", "ro">>
  /\ Len(nutrition.red) = 2
  /\ nutrition.yellow = <<>>
  /\ Len(nutrition.green) = 2

\* the structure has a table that _extract_from_tables reads rows from
HasMenuTable(struct) == \E i \in DOMAIN struct.tables : IsMenuTable(struct.tables[i].table)

\* the lists a strategy can return for the structure and month of the state
TableResults == {run.menus : run \in {r \in _extract_from_tables(structure, month) : ~r.raised}}
PositionResults == {run.menus : run \in {r \in _extract_from_positions(structure, month) : ~r.raised}}
TextResults == {run.menus : run \in {r \in _extract_from_text_analysis(structure, month) : ~r.raised}}

\* C4, as stated: when the structure has a table of two rows or more whose
\* header row holds the labels 日, 曜 and 献立名, the returned list is the
\* list of the table strategy.
C4_MenuTableGivesTableRecords ==
  (pl_pc = "returned" /\ HasMenuTable(structure)) => daily_menus \in TableResults

\* C4, amended: when the table strategy builds at least one record from the
\* tables of the structure, the returned list is the list of the table
\* strategy, also when the position strategy or the text strategy would
\* build records from the same structure.
C4_NonEmptyTableResultIsReturned ==
  (pl_pc = "returned" /\ HasMenuTable(structure) /\ <<>> \notin TableResults)
    => daily_menus \in TableResults

\* a returned list of the table strategy for a structure from which the
\* position strategy and the text strategy would build records as well
C4_Witness ==
  /\ pl_pc = "returned"
  /\ HasMenuTable(structure)
  /\ daily_menus # <<>>
  /\ daily_menus \in TableResults
  /\ \E r \in PositionResults : r # <<>> /\ r # daily_menus
  /\ \E r \in TextResults : r # <<>> /\ r # daily_menus

\* the place of a strategy in the order of lines 149-158
Rank(strategy) == CASE strategy = "tables" -> 1 [] strategy = "positions" -> 2 [] strategy = "text" -> 3

\* C5: the strategies run in the order table, position, text; a strategy
\* runs only if every earlier one gave an empty list (the table strategy is
\* passed over when the structure has no table); the returned list is the
\* whole list of the first strategy that gave a non-empty one, and it is
\* empty only if all three gave an empty list.
C5_FirstNonEmptyStrategy ==
  /\ pl_pc # Idle =>
       /\ \A i, j \in DOMAIN tried :
            i < j => Rank(tried[i].strategy) < Rank(tried[j].strategy) /\ tried[i].result = <<>>
       /\ \A j \in DOMAIN tried :
            \A k \in 1..(Rank(tried[j].strategy) - 1) :
              (k = 1 /\ structure.tables = <<>>) \/ (\E i \in 1..(j - 1) : Rank(tried[i].strategy) = k)
       /\ \A j \in DOMAIN tried :
            tried[j].result \in (CASE tried[j].strategy = "tables" -> TableResults
                                   [] tried[j].strategy = "positions" -> PositionResults
                                   [] tried[j].strategy = "text" -> TextResults)
  /\ pl_pc = "returned" =>
       /\ tried # <<>>
       /\ daily_menus = tried[Len(tried)].result
       /\ daily_menus = <<>> =>
            /\ \E j \in DOMAIN tried : tried[j].strategy = "positions"
            /\ \E j \in DOMAIN tried : tried[j].strategy = "text"
            /\ structure.tables # <<>> => \E j \in DOMAIN tried : tried[j].strategy = "tables"

\* the list of the text strategy is returned after the table strategy and
\* the position strategy each gave an empty list
C5_Witness ==
  /\ pl_pc = "returned"
  /\ Len(tried) = 3
  /\ tried[1].result = <<>> /\ tried[2].result = <<>>
  /\ daily_menus # <<>>
  /\ daily_menus = tried[3].result

\* the DD of a label "MM/DD(weekday)": the number between / and (
DayOfLabel(label) ==
  LET i == CHOOSE k \in DOMAIN label : label[k] = "SLASH"
      j == CHOOSE k \in DOMAIN label : label[k] = "LPAR"
  IN  IntOf(SubSeq(label, i + 1, j - 1)).value

\* the records the strategies have returned so far
Emitted == UNION {Range(tried[j].result) : j \in DOMAIN tried}

\* C6: the day of month in the label of every record a strategy returns is
\* in 1..31.
C6_DayInRange ==
  pl_pc # Idle => \A m \in Emitted : DayOfLabel(m.date) \in 1..31

\* C7: the weekday of every record a strategy returns is one of the seven
\* characters 月 火 水 木 金 土 日.
C7_WeekdayToken ==
  pl_pc # Idle => \A m \in Emitted : \E w \in WeekdayChars : m.day_of_week = <<w>>

\* C8, as stated: the three nutrition groups of every record of the returned
\* list are non-empty.
C8_AllGroupsNonEmpty ==
  pl_pc = "returned" =>
    \A i \in DOMAIN daily_menus :
      /\ daily_menus[i].nutrition.red # <<>>
      /\ daily_menus[i].nutrition.yellow # <<>>
      /\ daily_menus[i].nutrition.green # <<>>

\* C8, amended: the three nutrition groups of a record of the position
\* strategy or the text strategy are non-empty; of a record of the table
\* strategy at least one group is non-empty, and the others may be empty.
C8_GroupsNonEmptyByPath ==
  pl_pc = "returned" =>
    \A i \in DOMAIN daily_menus :
      LET n == daily_menus[i].nutrition
      IN  IF tried[Len(tried)].strategy = "tables"
          THEN n.red # <<>> \/ n.yellow # <<>> \/ n.green # <<>>
          ELSE n.red # <<>> /\ n.yellow # <<>> /\ n.green # <<>>

\* a returned list of the table strategy with a record that has an empty
\* group next to a group with items
C8_Witness ==
  /\ pl_pc = "returned"
  /\ tried # <<>>
  /\ tried[Len(tried)].strategy = "tables"
  /\ \E i \in DOMAIN daily_menus :
       /\ daily_menus[i].nutrition.red = <<>>
       /\ daily_menus[i].nutrition.yellow # <<>>

\* the text s has a month header whose number is s[i..q-1]: digits, then 月,
\* then 献, 立 and 表 in this order before the end of the line
HeaderAt(s, i, q) ==
  /\ i < q /\ q <= Len(s)
  /\ \A k \in i..(q - 1) : IsDigit(s[k])
  /\ s[q] = "k_getsu"
  /\ \E a, b, c \in (q + 1)..Len(s) :
       /\ a < b /\ b < c
       /\ s[a] = "k_kon2" /\ s[b] = "k_date" /\ s[c] = "k_hyou"
       /\ \A k \in q..c : s[k] # "NL"

HasHeader(s) == \E i, q \in DOMAIN s : HeaderAt(s, i, q)

\* the number of the first header of a text, with two digits at least
HeaderNumber(s) ==
  LET first == CHOOSE iq \in (DOMAIN s) \X (DOMAIN s) :
                 /\ HeaderAt(s, iq[1], iq[2])
                 /\ \A i, q \in DOMAIN s : HeaderAt(s, i, q) => iq[1] <= i
      n == NatOf(SubSeq(s, first[1], first[2] - 1))
  IN  IF n < 10 THEN <<"0">> \o StrOfNat(n) ELSE StrOfNat(n)

\* the month of a document: the number of the first page with a header, "00"
\* without one
MonthAsClaimed(pages) ==
  LET with == {p \in DOMAIN pages : HasHeader(pages[p].text)}
  IN  IF with = {} THEN <<"0", "0">>
      ELSE HeaderNumber(pages[CHOOSE p \in with : \A r \in with : p <= r].text)

\* the MM of a label "MM/DD(weekday)"
MonthOfLabel(label) ==
  SubSeq(label, 1, (CHOOSE k \in DOMAIN label : label[k] = "SLASH") - 1)

\* C11: the month is the zero-padded number of the first page, in page
\* order, whose text has a month header, and "00" when no page has one; the
\* label of every record of every strategy starts with that month.
C11_MonthOfFirstHeaderPage ==
  (pl_pc \notin {Idle, "main", "rejected", "analyze", "month"}) =>
    /\ month = MonthAsClaimed(structure.pages)
    /\ \A m \in Emitted \cup Range(daily_menus) : MonthOfLabel(m.date) = month

\* a returned list for a document with two pages that have headers of
\* different months
C11_Witness ==
  /\ pl_pc = "returned"
  /\ daily_menus # <<>>
  /\ \E p, r \in DOMAIN structure.pages :
       /\ p < r
       /\ HasHeader(structure.pages[p].text)
       /\ HasHeader(structure.pages[r].text)
       /\ HeaderNumber(structure.pages[p].text) # HeaderNumber(structure.pages[r].text)
       /\ month = HeaderNumber(structure.pages[p].text)

\* the list without its element i
RemoveAt(L, i) == SubSeq(L, 1, i - 1) \o SubSeq(L, i + 1, Len(L))

\* row r of table t is a data row of a menu table whose date cell is no integer
BadDateRow(tables, t, r) ==
  LET table == tables[t].table
  IN  /\ IsMenuTable(table)
      /\ r \in 2..Len(table)
      /\ LET col == IndexOf(HeaderDate, HeadersOf(table))
         IN  /\ col <= Len(table[r])
             /\ ~IntOf(CellText(table[r][col])).ok

BadDateRows(tables) ==
  UNION {{<<t, r>> : r \in {x \in DOMAIN tables[t].table : BadDateRow(tables, t, x)}} :
           t \in DOMAIN tables}

\* the structure without row r of table t
WithoutRow(struct, t, r) ==
  [struct EXCEPT !.tables[t].table = RemoveAt(struct.tables[t].table, r)]

\* C12: a data row whose date cell is no integer is skipped and nothing
\* else: the table strategy returns what it returns for the same tables
\* without that row, with the records of the rows before it and after it.
C12_BadDateRowOnlySkipped ==
  (pl_pc \notin {Idle, "main", "rejected", "analyze", "month"}) =>
    \A tr \in BadDateRows(structure.tables) :
      _extract_from_tables(structure, month)
        = _extract_from_tables(WithoutRow(structure, tr[1], tr[2]), month)

\* a list of the table strategy with records of rows before a row with a
\* date cell that is no integer, and of rows after it
C12_Witness ==
  /\ pl_pc = "returned"
  /\ tried # <<>>
  /\ tried[1].strategy = "tables"
  /\ \E tr \in BadDateRows(structure.tables) :
       LET head == SubSeq(structure.tables, 1, tr[1])
           upto == [structure EXCEPT
                      !.tables = [head EXCEPT ![tr[1]].table = SubSeq(head[tr[1]].table, 1, tr[2])]]
       IN  \E before \in _extract_from_tables(upto, month) :
             /\ ~before.raised
             /\ before.menus # <<>>
             /\ Len(tried[1].result) > Len(before.menus)

\* C13: when every strategy that ran gave no record, convert returns ''
\* and the renderer is not called, and main ends with a status that is not
\* 0; the renderer is called, once, exactly when there is a record.
C13_NoDataNoRender ==
  /\ (pl_pc \in {"converted", "exited"}) =>
       /\ (daily_menus = <<>>) <=> (\A j \in DOMAIN tried : tried[j].result = <<>>)
       /\ daily_menus = <<>> => (output_path = <<>> /\ rendered = <<>>)
       /\ daily_menus # <<>> =>
            /\ output_path # <<>>
            /\ rendered = <<[daily_menus |-> daily_menus, output_path |-> output_path]>>
  /\ (pl_pc = "exited" /\ daily_menus = <<>>) => exit_status \in 1..255
  /\ (pl_pc \notin {Idle, "converted", "exited"}) => rendered = <<>>

\* main has ended for a document with a table, after the three strategies
\* gave no record
C13_Witness ==
  /\ pl_pc = "exited"
  /\ Len(tried) = 3
  /\ daily_menus = <<>>
  /\ rendered = <<>>
  /\ exit_status = 1

\* C14: every record of the table, position or text strategy has a dish
\* list that is not empty; a row, date token or text span without dishes
\* gives no record, whatever its nutrition is.
C14_RecordsHaveDishes ==
  pl_pc # Idle =>
    \A m \in Emitted \cup Range(daily_menus) : m.menu_items # <<>>

\* a returned list of the text strategy for a text with a date whose span has
\* no dish: the date has no record, the other dates have one
C14_Witness ==
  /\ pl_pc = "returned"
  /\ tried # <<>>
  /\ tried[Len(tried)].strategy = "text"
  /\ daily_menus # <<>>
  /\ LET full_text == FullText(structure.pages)
         dates == KeptDates(full_text)
     IN  /\ Len(daily_menus) < Len(dates)
         /\ \E i \in DOMAIN dates :
              /\ \A p \in ParseOutcomes(MenuTextOf(full_text, dates, i)) :
                   ~p.raised /\ p.menu_items = <<>>
              /\ _extract_nutrition_advanced(MenuTextOf(full_text, dates, i)).red # <<>>

\* f maps the places of the result to the places of the argument they come from
ComesFrom(f, result, items) ==
  /\ \A i \in DOMAIN result : result[i] = items[f[i]]
  /\ \A i, j \in DOMAIN result :
       (i < j /\ (IsMainDish(result[i]) <=> IsMainDish(result[j]))) => f[i] < f[j]

\* C15: the reorder returns a permutation of its argument in which every
\* item with a staple keyword in its name is before every item without one
\* and the items of each of the two kinds are in the order of the argument;
\* reordering the result again changes nothing; the argument stays as it is.
C15_StablePartition ==
  /\ [](so_pc = "returned" =>
          /\ Len(so_result) = Len(so_items)
          /\ \E f \in Permutations(DOMAIN so_items) : ComesFrom(f, so_result, so_items)
          /\ \A i, j \in DOMAIN so_result :
               (IsMainDish(so_result[j]) /\ ~IsMainDish(so_result[i])) => j < i
          /\ _sort_menu_items_by_priority(so_result) = so_result)
  /\ [][so_items' = so_items]_vars

\* a list with two different staples after a dish that is none, and a last
\* dish that is none either: the result is another list
C15_Witness ==
  /\ so_pc = "returned"
  /\ so_result # so_items
  /\ Len(so_items) = 4
  /\ ~IsMainDish(so_items[1]) /\ IsMainDish(so_items[2]) /\ IsMainDish(so_items[3])
  /\ so_items[2] # so_items[3]
  /\ ~IsMainDish(so_items[4]) /\ so_items[4] # so_items[1]

\* C16: no entry of the list of the tokenizer, at any point of a run and so
\* in the list it returns, has a name of problematic_patterns (さんまの塩焼き,
\* の味噌和え, 野菜の炒め, 入り玉子焼き), whichever loop proposed the name.
C16_NoProblematicName ==
  tk_pc # Idle =>
    \A i \in DOMAIN menu_items : ~InList(menu_items[i].name, problematic_patterns)

\* a returned list with さばの塩焼き for a text in which the second loop
\* proposed a name of problematic_patterns that is a valid dish name
C16_Witness ==
  /\ tk_pc = "done"
  /\ \E i \in DOMAIN menu_items :
       menu_items[i].name = <<"sa", "ba", "no", "k_shio", "k_yaki", "ki">>
  /\ \E d \in Range(_extract_dishes_by_pattern(CleanText(tk_text))) :
       /\ InList(d, problematic_patterns)
       /\ _is_valid_dish_name(d)


(***************************************************************************)
(* C17: the categories of the returned entries                             *)
(***************************************************************************)

\* C17: every entry of the list the tokenizer builds carries the category of
\* the first group, in the order staple, soup, drink, one of whose words
\* occurs in its name, and SideDish when no word of the three groups occurs;
\* the menu cell ご飯 味噌汁 牛乳 returns ご飯 as staple, 味噌汁 as soup and
\* 牛乳 as drink, in this order.
C17_CategoryByOrderedPatterns ==
  tk_pc # Idle =>
    /\ \A i \in DOMAIN menu_items :
         LET name == menu_items[i].name
             has(words) == \E w \in Range(words) : IsSub(w, name)
         IN  menu_items[i].category =
               CASE has(main_food_patterns) -> "shushoku"
                 [] ~has(main_food_patterns) /\ has(soup_patterns) -> "shirumono"
                 [] ~has(main_food_patterns) /\ ~has(soup_patterns) /\ has(drink_patterns)
                      -> "nomimono"
                 [] OTHER -> "okazu"
    /\ ( /\ tk_pc = "done"
         /\ tk_text = <<"go", "k_han", "SP", "k_aji", "k_so", "k_shiru", "SP", "k_gyu", "k_nyu">> )
       => menu_items = << [name |-> <<"go", "k_han">>, category |-> "shushoku"],
                          [name |-> <<"k_aji", "k_so", "k_shiru">>, category |-> "shirumono"],
                          [name |-> <<"k_gyu", "k_nyu">>, category |-> "nomimono"] >>

\* the menu cell ご飯 味噌汁 牛乳 has been tokenized into three entries
C17_Witness ==
  /\ tk_pc = "done"
  /\ tk_text = <<"go", "k_han", "SP", "k_aji", "k_so", "k_shiru", "SP", "k_gyu", "k_nyu">>
  /\ Len(menu_items) = 3

(***************************************************************************)
(* C18: the menu spans of the text strategy                                *)
(***************************************************************************)

\* the tokens of the date pattern in the joined text of the pages, and those
\* of them with a number from 1 to 31
TextTokens == DateMatches(FullText(structure.pages), 1)
NumberInMonth(token) == token.date \in 1..31
KeptTokens == SelectSeq(TextTokens, NumberInMonth)

\* the positions of the joined text between the end of kept token i and the
\* start of the next kept token, or the end of the text
SpanPositions(i) ==
  {p \in 1..Len(FullText(structure.pages)) :
     /\ p > KeptTokens[i].end
     /\ i < Len(KeptTokens) => p <= KeptTokens[i + 1].start}

\* the text at a set of positions that follow one another
TextAt(positions) ==
  [k \in 1..Cardinality(positions) |->
     FullText(structure.pages)[CHOOSE p \in positions :
                                 Cardinality({q \in positions : q <= p}) = k]]

\* the lists of dishes the tokenizer can return for the span of kept token i
SpanDishes(i) ==
  {st.menu_items : st \in {x \in _parse_menu_text_advanced(TextAt(SpanPositions(i))) : ~x.raised}}

\* the k-th smallest member of a set of numbers
Nth(S, k) == CHOOSE x \in S : Cardinality({y \in S : y <= x}) = k

\* C18: the records of the text strategy are those of a set of kept tokens
\* (tokens of the date pattern with a number from 1 to 31), one record for
\* each token of the set and in the order of the tokens in the joined text;
\* the record of a token has the label of the token and the dishes of the
\* text from the end of the token to the start of the next kept token (to the
\* end of the text for the last one); a kept token without a record has a
\* span without dishes; the spans of two kept tokens share no position.
C18_SpansBetweenKeptTokens ==
  pl_pc # Idle =>
    \A j \in DOMAIN tried :
      tried[j].strategy = "text" =>
        /\ \A a, b \in DOMAIN KeptTokens :
             a # b => SpanPositions(a) \cap SpanPositions(b) = {}
        /\ \E S \in SUBSET (DOMAIN KeptTokens) :
             /\ Cardinality(S) = Len(tried[j].result)
             /\ \A k \in DOMAIN tried[j].result :
                  LET token == KeptTokens[Nth(S, k)]
                      record == tried[j].result[k]
                  IN  /\ record.date = Label(month, token.date, token.day)
                      /\ record.day_of_week = token.day
                      /\ record.menu_items # <<>>
                      /\ record.menu_items \in SpanDishes(Nth(S, k))
             /\ \A i \in (DOMAIN KeptTokens) \ S : <<>> \in SpanDishes(i)

\* the text strategy has given two records or more for a text in which a
\* token with a number outside 1..31 stands between two kept tokens and a
\* kept token has no record
C18_Witness ==
  /\ pl_pc = "returned"
  /\ \E j \in DOMAIN tried :
       /\ tried[j].strategy = "text"
       /\ Len(tried[j].result) >= 2
       /\ Len(tried[j].result) < Len(KeptTokens)
  /\ \E i \in DOMAIN TextTokens :
       /\ ~NumberInMonth(TextTokens[i])
       /\ \E a, b \in DOMAIN TextTokens :
            a < i /\ i < b /\ NumberInMonth(TextTokens[a]) /\ NumberInMonth(TextTokens[b])

(***************************************************************************)
(* C19: the records of the position strategy                               *)
(***************************************************************************)

\* the dishes the tokenizer can return for the words of a page near a token
NearDishes(page, token) ==
  {st.menu_items :
     st \in {x \in _parse_menu_text_advanced(_get_nearby_text(page.words, token)) : ~x.raised}}

\* C19: the position strategy gives no more records than the structure has
\* date tokens, and every record has the label of a date token and the
\* dishes of the words near it on the page the token was found on.
C19_OneRecordPerTokenOfItsPage ==
  pl_pc # Idle =>
    \A j \in DOMAIN tried :
      tried[j].strategy = "positions" =>
        /\ Len(tried[j].result) <= Len(structure.date_positions)
        /\ \A k \in DOMAIN tried[j].result :
             \E p \in DOMAIN structure.pages :
               \E token \in Range(_find_date_positions(structure.pages[p].words)) :
                 /\ tried[j].result[k].date = Label(month, token.date, token.day)
                 /\ tried[j].result[k].menu_items \in NearDishes(structure.pages[p], token)
====
